---- MODULE Spec2Model ----
(***************************************************************************)
(* Model of the catalog auto-checker of flagship-dash:                     *)
(*   src/app/api/auto-checker-catalog-number/route.ts  (validation, GET)   *)
(*   src/lib/metadata-utils.ts                         (fingerprint)       *)
(*   src/unnamed/part_002                              (BluePrint store)   *)
(*                                                                         *)
(* JavaScript strings are sequences of one-character strings, so that      *)
(* trim, toUpperCase, toLowerCase, replace, split, parseFloat, Number and  *)
(* the "aggressive" regular expressions are computed, not assumed.         *)
(* Cell values are tagged records:                                         *)
(*   [t |-> "str", s |-> chars]   a string                                 *)
(*   [t |-> "num", m |-> i, e |-> k]   the number i / 10^k (normalised)    *)
(*   [t |-> "nan"]   NaN        [t |-> "bool", b |-> TRUE/FALSE]           *)
(*   [t |-> "null"]  null       [t |-> "undef"]  undefined / absent key    *)
(*   [t |-> "arr", a |-> <<chars, ...>>]   an array of strings             *)
(***************************************************************************)
EXTENDS Integers, Sequences, FiniteSets, TLC

\* ------------------------------------------------------------------------
\* Characters and strings
\* ------------------------------------------------------------------------

LowerLetters == <<"a","b","c","d","e","f","g","h","i","j","k","l","m",
                  "n","o","p","q","r","s","t","u","v","w","x","y","z">>

UpperLetters == <<"A","B","C","D","E","F","G","H","I","J","K","L","M",
                  "N","O","P","Q","R","S","T","U","V","W","X","Y","Z">>

Digits == <<"0","1","2","3","4","5","6","7","8","9">>

Range(f) == { f[i] : i \in DOMAIN f }

IndexOf(seq, c) == CHOOSE i \in DOMAIN seq : seq[i] = c

LowerSet == Range(LowerLetters)

UpperSet == Range(UpperLetters)

DigitSet == Range(Digits)

IsLower(c) == c \in LowerSet

IsUpper(c) == c \in UpperSet

IsDigit(c) == c \in DigitSet

DigitVal(c) == IndexOf(Digits, c) - 1

\* White space removed by String.prototype.trim (the characters the model draws).
IsSpace(c) == c \in {" ", "\t"}

\* /\w/ : [A-Za-z0-9_]
IsWordChar(c) == IsLower(c) \/ IsUpper(c) \/ IsDigit(c) \/ c = "_"

\* The characters escaped by  /[-\/\\^$*+?.()|[\]{}]/g
RegexSpecials ==
    {"-", "/", "\\", "^", "$", "*", "+", "?", ".", "(", ")", "|", "[", "]", "{", "}"}

IsRegexSpecial(c) == c \in RegexSpecials

UpperChar(c) == IF IsLower(c) THEN UpperLetters[IndexOf(LowerLetters, c)] ELSE c

LowerChar(c) == IF IsUpper(c) THEN LowerLetters[IndexOf(UpperLetters, c)] ELSE c

toUpperCase(s) == [i \in 1..Len(s) |-> UpperChar(s[i])]

toLowerCase(s) == [i \in 1..Len(s) |-> LowerChar(s[i])]

MinOf(S) == CHOOSE x \in S : \A y \in S : x <= y

\* A statement's result held in a local: x is computed once, then Rest reads it.
Bind(x, Rest(_)) == CHOOSE y \in { Rest(v) : v \in {x} } : TRUE

RECURSIVE TrimStart(_)
TrimStart(s) == IF s # <<>> /\ IsSpace(Head(s)) THEN TrimStart(Tail(s)) ELSE s

RECURSIVE TrimEnd(_)
TrimEnd(s) ==
    IF s # <<>> /\ IsSpace(s[Len(s)]) THEN TrimEnd(SubSeq(s, 1, Len(s) - 1)) ELSE s

\* String.prototype.trim
trim(s) == TrimEnd(TrimStart(s))

\* s.replace(",", "."): a string pattern replaces the FIRST occurrence only.
ReplaceFirstComma(s) ==
    LET at == { i \in 1..Len(s) : s[i] = "," }
    IN  IF at = {} THEN s ELSE [s EXCEPT ![MinOf(at)] = "."]

\* s.split(","): the pieces between commas (always at least one piece).
RECURSIVE SplitComma(_)
SplitComma(s) ==
    LET at == { i \in 1..Len(s) : s[i] = "," }
    IN  IF at = {} THEN <<s>>
        ELSE <<SubSeq(s, 1, MinOf(at) - 1)>>
             \o SplitComma(SubSeq(s, MinOf(at) + 1, Len(s)))

\* Array.prototype.filter / map on sequences of strings.
RECURSIVE FilterNonEmpty(_)
FilterNonEmpty(ss) ==
    IF ss = <<>> THEN <<>>
    ELSE (IF Len(Head(ss)) > 0 THEN <<Head(ss)>> ELSE <<>>) \o FilterNonEmpty(Tail(ss))

MapTrim(ss) == [i \in 1..Len(ss) |-> trim(ss[i])]

\* ------------------------------------------------------------------------
\* Values
\* ------------------------------------------------------------------------

Str(s) == [t |-> "str", s |-> s]

Null == [t |-> "null"]

Undef == [t |-> "undef"]

NaN == [t |-> "nan"]

Bool(b) == [t |-> "bool", b |-> b]

Arr(a) == [t |-> "arr", a |-> a]

\* The number m / 10^e, with no trailing zero in the fraction.
RECURSIVE Num(_, _)
Num(m, e) ==
    IF e > 0 /\ m % 10 = 0 THEN Num(m \div 10, e - 1)
    ELSE [t |-> "num", m |-> m, e |-> e]

IsNullish(v) == v.t \in {"null", "undef"}

\* The digits of a natural number.
RECURSIVE NatChars(_)
NatChars(n) ==
    IF n < 10 THEN <<Digits[n + 1]>>
    ELSE NatChars(n \div 10) \o <<Digits[(n % 10) + 1]>>

RECURSIVE Pow10(_)
Pow10(k) == IF k = 0 THEN 1 ELSE 10 * Pow10(k - 1)

RECURSIVE PadFrac(_, _)
PadFrac(cs, k) == IF Len(cs) >= k THEN cs ELSE PadFrac(<<"0">> \o cs, k)

\* String(number) for a finite decimal.
NumChars(v) ==
    LET a  == IF v.m < 0 THEN 0 - v.m ELSE v.m
        ip == a \div Pow10(v.e)
        fp == a % Pow10(v.e)
    IN  (IF v.m < 0 THEN <<"-">> ELSE <<>>)
        \o NatChars(ip)
        \o (IF v.e = 0 THEN <<>> ELSE <<".">> \o PadFrac(NatChars(fp), v.e))

\* Array.prototype.join(",")
RECURSIVE JoinComma(_)
JoinComma(ss) ==
    IF ss = <<>> THEN <<>>
    ELSE IF Len(ss) = 1 THEN ss[1]
    ELSE ss[1] \o <<",">> \o JoinComma(Tail(ss))

\* String(value)
String(v) ==
    CASE v.t = "str"   -> v.s
      [] v.t = "num"   -> NumChars(v)
      [] v.t = "nan"   -> <<"N","a","N">>
      [] v.t = "bool"  -> IF v.b THEN <<"t","r","u","e">> ELSE <<"f","a","l","s","e">>
      [] v.t = "null"  -> <<"n","u","l","l">>
      [] v.t = "undef" -> <<"u","n","d","e","f","i","n","e","d">>
      [] v.t = "arr"   -> JoinComma(v.a)

\* JavaScript truthiness.
Truthy(v) ==
    CASE v.t = "str"  -> Len(v.s) > 0
      [] v.t = "num"  -> v.m # 0
      [] v.t = "bool" -> v.b
      [] v.t = "arr"  -> TRUE
      [] OTHER        -> FALSE

\* The length of the longest prefix of s, from position i, made of digits.
RECURSIVE DigitRun(_, _)
DigitRun(s, i) == IF i <= Len(s) /\ IsDigit(s[i]) THEN 1 + DigitRun(s, i + 1) ELSE 0

RECURSIVE DigitsVal(_)
DigitsVal(cs) ==
    IF cs = <<>> THEN 0
    ELSE 10 * DigitsVal(SubSeq(cs, 1, Len(cs) - 1)) + DigitVal(cs[Len(cs)])

\* The decimal literal  [sign] digits [. digits]  starting at position i of s:
\* [ok, val, end] with end the position after the literal.  The inputs of the
\* model hold no exponent, hexadecimal or Infinity forms.
DecimalAt(s, i) ==
    LET neg  == i <= Len(s) /\ s[i] = "-"
        j    == IF i <= Len(s) /\ s[i] \in {"-", "+"} THEN i + 1 ELSE i
        n1   == DigitRun(s, j)
        dot  == j + n1 <= Len(s) /\ s[j + n1] = "."
        n2   == IF dot THEN DigitRun(s, j + n1 + 1) ELSE 0
        ok   == n1 + n2 > 0
        mant == DigitsVal(SubSeq(s, j, j + n1 - 1)) * Pow10(n2)
                + DigitsVal(SubSeq(s, j + n1 + 1, j + n1 + n2))
        end  == IF dot THEN j + n1 + 1 + n2 ELSE j + n1
    IN  [ok |-> ok, val |-> Num(IF neg THEN 0 - mant ELSE mant, n2), end |-> end]

\* parseFloat(string): leading white space is skipped, the longest decimal
\* prefix is converted and whatever follows it is ignored; NaN without a digit.
parseFloat(s) ==
    LET d == DecimalAt(TrimStart(s), 1)
    IN  IF d.ok THEN d.val ELSE NaN

\* Number(value): a string converts only as a whole (after trimming), the
\* empty string and null are 0, undefined is NaN, booleans are 0 / 1.
Number(v) ==
    CASE v.t = "num"   -> v
      [] v.t = "nan"   -> NaN
      [] v.t = "null"  -> Num(0, 0)
      [] v.t = "undef" -> NaN
      [] v.t = "bool"  -> Num(IF v.b THEN 1 ELSE 0, 0)
      [] v.t = "arr"   -> NaN
      [] v.t = "str"   ->
           LET s == trim(v.s)
               d == DecimalAt(s, 1)
           IN  IF s = <<>> THEN Num(0, 0)
               ELSE IF d.ok /\ d.end = Len(s) + 1 THEN d.val ELSE NaN

\* a < 0 for numbers (NaN compares false).
IsNegative(v) == v.t = "num" /\ v.m < 0

\* ------------------------------------------------------------------------
\* Program constants and the schema of the run
\* ------------------------------------------------------------------------

validCurrencies ==
    { <<"E","U","R">>, <<"U","S","D">>, <<"G","B","P">>, <<"P","L","N">>, <<"J","P","Y">> }

EssentialFields ==
    << "name", "catalog_number", "supplier_catalog_number", "supplier.id",
       "price.buy.currency", "price.buy.amount", "price.promotion_price.amount",
       "shipment.dry_ice", "size", "available", "display" >>

booleanFields == << "shipment.dry_ice", "available", "display" >>

\* The field definitions of the document "gentaur_products_additional_fields":
\* one constant field with two allowed values (the first with an alternate
\* name) and one variable field.
Fields ==
    << [name |-> "species", type |-> "constant",
        value |-> << [name |-> <<"H","u","m","a","n">>,
                      properties |-> << <<"H","o","m","o">> >>],
                     [name |-> <<"M","o","u","s","e">>,
                      properties |-> << >>] >>],
       [name |-> "note", type |-> "variable", value |-> << >>] >>

AdditionalFieldNames(fields) == [i \in 1..Len(fields) |-> fields[i].name]

\* The columns of a sheet, in header order; "lot" is a column no schema names.
ColumnOrder == EssentialFields \o << "species", "note", "lot" >>

Keys == Range(ColumnOrder)

\* Object.keys(product): the keys that are set, in insertion order.
RECURSIVE KeysFrom(_, _)
KeysFrom(product, i) ==
    IF i > Len(ColumnOrder) THEN <<>>
    ELSE (IF product[ColumnOrder[i]].t = "undef" THEN <<>> ELSE <<ColumnOrder[i]>>)
         \o KeysFrom(product, i + 1)

ObjectKeys(product) == KeysFrom(product, 1)

\* getAllKeysWithDotNotation: the products of a sheet are flat (a cell is never
\* a plain object), so every own key is returned as it is.
getAllKeysWithDotNotation(product) == ObjectKeys(product)

\* ------------------------------------------------------------------------
\* createAggressiveRegex and RegExp.prototype.test
\* ------------------------------------------------------------------------

\* input.replace(/[-\/\\^$*+?.()|[\]{}]/g, "\\$&")
RECURSIVE EscapeRegex(_)
EscapeRegex(s) ==
    IF s = <<>> THEN <<>>
    ELSE (IF IsRegexSpecial(Head(s)) THEN <<"\\", Head(s)>> ELSE <<Head(s)>>)
         \o EscapeRegex(Tail(s))

\* The pattern, one element per character of the ESCAPED input: a word
\* character c becomes  c\W*  and any other character is escaped again, which
\* makes it a literal (the backslashes added by the first escape included).
\* The cache only stores the pattern built here, so a hit returns the same.
RECURSIVE PatternOf(_)
PatternOf(escapedInput) ==
    IF escapedInput = <<>> THEN <<>>
    ELSE << [k |-> IF IsWordChar(Head(escapedInput)) THEN "word" ELSE "lit",
             c |-> Head(escapedInput)] >>
         \o PatternOf(Tail(escapedInput))

\* The pattern createAggressiveRegex returns for input: the one it builds on a
\* miss.  The Map it keeps the patterns in is CacheAfter, below.
createAggressiveRegex(input) == PatternOf(EscapeRegex(input))

\* Flag "i".
CharEqI(a, b) == UpperChar(a) = UpperChar(b)

RECURSIVE NonWordRun(_, _)
NonWordRun(s, j) ==
    IF j <= Len(s) /\ ~IsWordChar(s[j]) THEN 1 + NonWordRun(s, j + 1) ELSE 0

RECURSIVE MatchFrom(_, _, _, _)
MatchFrom(p, i, s, j) ==
    IF i > Len(p) THEN TRUE
    ELSE IF j > Len(s) THEN FALSE
    ELSE IF ~CharEqI(p[i].c, s[j]) THEN FALSE
    ELSE IF p[i].k = "lit" THEN MatchFrom(p, i + 1, s, j + 1)
    ELSE \E n \in 0..NonWordRun(s, j + 1) : MatchFrom(p, i + 1, s, j + 1 + n)

\* regex.test(s): the pattern is not anchored and has no "g" flag (no state).
RegexTest(p, s) ==
    IF Len(p) = 0 THEN TRUE ELSE \E j \in 1..Len(s) : MatchFrom(p, 1, s, j)

\* ------------------------------------------------------------------------
\* Diagnostics
\* ------------------------------------------------------------------------

ProcessError(type, severity, code, field, catalogNumber, value, details) ==
    [type |-> type, severity |-> severity, code |-> code, field |-> field,
     catalogNumber |-> catalogNumber, value |-> value, details |-> details]

\* ------------------------------------------------------------------------
\* parseBoolean, validateBooleanField, validatePriceAmount
\* ------------------------------------------------------------------------

TrueWords == { <<"t","r","u","e">>, <<"y","e","s">>, <<"v","r","a","i">> }

FalseWords == { <<"f","a","l","s","e">>, <<"n","o">>, <<"f","a","u","x">> }

parseBoolean(value) ==
    IF value.t = "bool" THEN value
    ELSE IF value.t = "str" /\ toLowerCase(trim(value.s)) \in TrueWords THEN Bool(TRUE)
    ELSE IF value.t = "str" /\ toLowerCase(trim(value.s)) \in FalseWords THEN Bool(FALSE)
    ELSE Null

IsBlankValue(value) == IsNullish(value) \/ trim(String(value)) = <<>>

\* The words validateBooleanField lets through.
AcceptedBooleanStrings == { <<"t","r","u","e">>, <<"f","a","l","s","e">> }

\* Returns <<>> (null) or <<error>>.
validateBooleanField(value, fieldName, productCatalogNumber) ==
    IF IsBlankValue(value)
    THEN << ProcessError("missing_field", "error", "EMPTY_BOOLEAN_FIELD", fieldName,
                         productCatalogNumber, Undef, <<>>) >>
    ELSE IF toLowerCase(trim(String(value))) \notin AcceptedBooleanStrings
    THEN << ProcessError("invalid_value", "error", "INVALID_BOOLEAN_VALUE", fieldName,
                         productCatalogNumber, value, <<>>) >>
    ELSE <<>>

\* parseFloat(String(v).replace(",", "."))
NormalizeAmount(value) == parseFloat(ReplaceFirstComma(String(value)))

\* Returns <<>> (null) or <<error>>.
validatePriceAmount(priceAmount, fieldName, productCatalogNumber) ==
    IF IsBlankValue(priceAmount)
    THEN << ProcessError("missing_field", "error", "EMPTY_PRICE_AMOUNT", fieldName,
                         productCatalogNumber, Undef, <<>>) >>
    ELSE IF NormalizeAmount(priceAmount) = NaN
    THEN << ProcessError("invalid_value", "error", "INVALID_PRICE_AMOUNT", fieldName,
                         productCatalogNumber, priceAmount, <<>>) >>
    ELSE IF IsNegative(NormalizeAmount(priceAmount))
    THEN << ProcessError("invalid_value", "error", "NEGATIVE_PRICE_AMOUNT", fieldName,
                         productCatalogNumber, priceAmount, <<>>) >>
    ELSE <<>>

\* ------------------------------------------------------------------------
\* validateAdditionalFields
\* ------------------------------------------------------------------------

\* fields.find(field => field.name.trim() === trimmedKey): the first one.
FindField(fields, key) ==
    fields[MinOf({ i \in 1..Len(fields) : fields[i].name = key })]

\* One allowed value against one token: its properties first, then its name.
ItemMatches(itemValue, inputValue) ==
    \/ \E i \in 1..Len(itemValue.properties) :
           RegexTest(createAggressiveRegex(itemValue.properties[i]), inputValue)
    \/ RegexTest(createAggressiveRegex(itemValue.name), inputValue)

\* A variant of FirstMatch in which the loop over the allowed values does not
\* stop at the first match, so the last one wins; against it C25 fails.
LastMatch(allowedValues, inputValue) ==
    LET hits == { i \in 1..Len(allowedValues) : ItemMatches(allowedValues[i], inputValue) }
    IN  IF hits = {} THEN 0 ELSE CHOOSE i \in hits : \A j \in hits : j <= i

\* The inner loops of one token: the index of the first allowed value that
\* matches (the loops break there), 0 when none does.
FirstMatch(allowedValues, inputValue) ==
    LET hits == { i \in 1..Len(allowedValues) : ItemMatches(allowedValues[i], inputValue) }
    IN  IF hits = {} THEN 0 ELSE MinOf(hits)

\* A variant of SetAdd that collects the names in an array (push), against
\* which C7 fails.
SetAddRepeating(items, name) == Append(items, name)

\* matchedItems.add(name): a Set keeps insertion order and holds no value twice.
SetAdd(items, name) == IF name \in Range(items) THEN items ELSE Append(items, name)

\* The loop over inputValues: [matchedItems, subErrors].
RECURSIVE MatchTokens(_, _, _)
MatchTokens(allowedValues, inputValues, acc) ==
    IF inputValues = <<>> THEN acc
    ELSE LET inputValue == Head(inputValues)
         IN  Bind(FirstMatch(allowedValues, inputValue), LAMBDA hit :
             Bind(IF hit = 0
                  THEN [acc EXCEPT !.subErrors = Append(@, inputValue)]
                  ELSE [acc EXCEPT !.matchedItems = SetAdd(@, allowedValues[hit].name)],
                  LAMBDA next : MatchTokens(allowedValues, Tail(inputValues), next)))

\* The body of the loop for one constant-kind key: [product, errors].
ValidateConstant(finalProduct, key, allowedValues) ==
    LET rawValue == finalProduct[key]
    IN
    Bind(trim(IF Truthy(rawValue) THEN String(rawValue) ELSE <<>>), LAMBDA trimmedRawValue :
    Bind(FilterNonEmpty(MapTrim(SplitComma(trimmedRawValue))), LAMBDA inputValues :
    Bind(MatchTokens(allowedValues, inputValues, [matchedItems |-> <<>>, subErrors |-> <<>>]),
         LAMBDA r :
    LET errs == IF Len(r.subErrors) > 0
                THEN << ProcessError("invalid_value", "error", "UNRECOGNIZED_CONSTANT_VALUE",
                                     key, finalProduct["catalog_number"], rawValue,
                                     r.subErrors) >>
                ELSE <<>>
    IN  IF toLowerCase(trimmedRawValue) = <<"n","/","a">>
        THEN [product |-> [finalProduct EXCEPT ![key] = Arr(<<>>)], errors |-> <<>>]
        ELSE IF trimmedRawValue = <<>>
        THEN [product |-> finalProduct,
              errors  |-> << ProcessError("missing_field", "error", "EMPTY_CONSTANT_FIELD",
                                          key, finalProduct["catalog_number"], Undef, <<>>) >>]
        ELSE IF Len(r.matchedItems) > 0
        THEN [product |-> [finalProduct EXCEPT ![key] = Arr(r.matchedItems)], errors |-> errs]
        ELSE IF Len(inputValues) > 0 /\ Len(r.subErrors) = Len(inputValues)
        THEN [product |-> [finalProduct EXCEPT ![key] = Arr(<<>>)], errors |-> errs]
        ELSE [product |-> finalProduct, errors |-> errs])))

\* The body of the loop for one variable-kind key: [product, errors].
ValidateVariable(finalProduct, key) ==
    LET variableValue == finalProduct[key]
    IN
    Bind(trim(IF Truthy(variableValue) THEN String(variableValue) ELSE <<>>),
         LAMBDA trimmedVariableValue :
        IF toLowerCase(trimmedVariableValue) = <<"n","/","a">>
        THEN [product |-> [finalProduct EXCEPT ![key] = Str(<<>>)], errors |-> <<>>]
        ELSE IF trimmedVariableValue = <<>>
        THEN [product |-> finalProduct,
              errors  |-> << ProcessError("missing_field", "error", "EMPTY_VARIABLE_FIELD",
                                          key, finalProduct["catalog_number"], Undef, <<>>) >>]
        ELSE [product |-> [finalProduct EXCEPT ![key] = Str(trimmedVariableValue)],
              errors  |-> <<>>])

\* The loop over Object.keys(finalProduct) (header keys are already trimmed).
RECURSIVE AdditionalLoop(_, _, _, _)
AdditionalLoop(keys, acc, additionalFieldNames, fields) ==
    IF keys = <<>> THEN acc
    ELSE LET key == Head(keys)
         IN  Bind(IF key \notin Range(additionalFieldNames)
                  THEN [product |-> acc.product, errors |-> <<>>]
                  ELSE IF FindField(fields, key).type = "constant"
                  THEN ValidateConstant(acc.product, key, FindField(fields, key).value)
                  ELSE IF FindField(fields, key).type = "variable"
                  THEN ValidateVariable(acc.product, key)
                  ELSE [product |-> acc.product, errors |-> <<>>],
                  LAMBDA r :
             Bind([product |-> r.product, errors |-> acc.errors \o r.errors], LAMBDA next :
                  AdditionalLoop(Tail(keys), next, additionalFieldNames, fields)))

\* Returns [product, errors]: the product is changed in place.
validateAdditionalFields(finalProduct, additionalFieldNames, fields) ==
    Bind(ObjectKeys(finalProduct), LAMBDA keys :
         AdditionalLoop(keys, [product |-> finalProduct, errors |-> <<>>],
                        additionalFieldNames, fields))

\* ------------------------------------------------------------------------
\* processProductChunk
\* ------------------------------------------------------------------------

\* A variant of CatalogMissing without the trim() test, against which C1 fails.
CatalogMissingUntrimmed(product) ==
    \/ ~Truthy(product["catalog_number"])
    \/ product["catalog_number"].t # "str"

\* !productCatalogNumber || typeof productCatalogNumber !== 'string' || trim() === ''
CatalogMissing(product) ==
    LET productCatalogNumber == product["catalog_number"]
    IN  \/ ~Truthy(productCatalogNumber)
        \/ productCatalogNumber.t # "str"
        \/ trim(String(productCatalogNumber)) = <<>>

\* A variant of DuplicateCheck that looks at the chunk-local set only, against
\* which C2 fails.
DuplicateCheckChunkOnly(productCatalogNumber, chunkSet, globalSet) ==
    IF productCatalogNumber.s \in chunkSet
    THEN [errors |-> << ProcessError("duplication", "error", "CHUNK_DUPLICATE_CATALOG_NUMBER",
                                     "catalog_number", productCatalogNumber, Undef, <<>>) >>,
          chunkSet |-> chunkSet, globalSet |-> globalSet]
    ELSE [errors |-> <<>>,
          chunkSet  |-> chunkSet \cup {productCatalogNumber.s},
          globalSet |-> globalSet \cup {productCatalogNumber.s}]

\* The duplicate check: [errors, chunkSet, globalSet].
DuplicateCheck(productCatalogNumber, chunkSet, globalSet) ==
    IF productCatalogNumber.s \in chunkSet
    THEN [errors |-> << ProcessError("duplication", "error", "CHUNK_DUPLICATE_CATALOG_NUMBER",
                                     "catalog_number", productCatalogNumber, Undef, <<>>) >>,
          chunkSet |-> chunkSet, globalSet |-> globalSet]
    ELSE IF productCatalogNumber.s \in globalSet
    THEN [errors |-> << ProcessError("duplication", "error", "GLOBAL_DUPLICATE_CATALOG_NUMBER",
                                     "catalog_number", productCatalogNumber, Undef, <<>>) >>,
          chunkSet |-> chunkSet \cup {productCatalogNumber.s}, globalSet |-> globalSet]
    ELSE [errors |-> <<>>,
          chunkSet  |-> chunkSet \cup {productCatalogNumber.s},
          globalSet |-> globalSet \cup {productCatalogNumber.s}]

\* product[key] is null, undefined or a string that is blank.
IsEmptyCell(v) == IsNullish(v) \/ (v.t = "str" /\ trim(v.s) = <<>>)

\* The unrecognized-field check, over the keys in order.
RECURSIVE UnrecognizedLoop(_, _, _)
UnrecognizedLoop(keys, product, additionalFieldNames) ==
    IF keys = <<>> THEN <<>>
    ELSE LET key == Head(keys)
         IN  (IF ~IsEmptyCell(product[key])
                 /\ key \notin Range(EssentialFields \o additionalFieldNames)
              THEN << ProcessError("unrecognized_field", "warning",
                                   "UNRECOGNIZED_PRODUCT_FIELD", key,
                                   product["catalog_number"], Undef, <<>>) >>
              ELSE <<>>)
             \o UnrecognizedLoop(Tail(keys), product, additionalFieldNames)

\* A variant of EssentialLoop without the exception made for the promotion
\* amount, against which C27 fails.
RECURSIVE EssentialLoopNoException(_, _)
EssentialLoopNoException(i, acc) ==
    IF i > Len(EssentialFields) THEN acc
    ELSE LET field == EssentialFields[i]
             v     == acc.product[field]
         IN  Bind(IF IsEmptyCell(v)
                  THEN [acc EXCEPT !.errors = Append(@,
                           ProcessError("missing_field", "error", "MISSING_ESSENTIAL_FIELD",
                                        field, acc.product["catalog_number"], Undef, <<>>))]
                  ELSE acc,
                  LAMBDA next : EssentialLoopNoException(i + 1, next))

\* The essential-field check, over EssentialFields from index i: [product, errors].
RECURSIVE EssentialLoop(_, _)
EssentialLoop(i, acc) ==
    IF i > Len(EssentialFields) THEN acc
    ELSE LET field == EssentialFields[i]
             v     == acc.product[field]
         IN  Bind(IF field = "price.promotion_price.amount" /\ IsBlankValue(v)
                  THEN [acc EXCEPT !.product[field] = Null]
                  ELSE IF IsEmptyCell(v)
                  THEN [acc EXCEPT !.errors = Append(@,
                           ProcessError("missing_field", "error", "MISSING_ESSENTIAL_FIELD",
                                        field, acc.product["catalog_number"], Undef, <<>>))]
                  ELSE acc,
                  LAMBDA next : EssentialLoop(i + 1, next))

\* A variant of SupplierCheck that only rejects what is no number, against
\* which C6 fails.
SupplierCheckNaNOnly(product, supplierId) ==
    IF Number(product["supplier.id"]) = NaN
    THEN << ProcessError("invalid_value", "error", "INVALID_SUPPLIER_ID", "supplier.id",
                         product["catalog_number"], product["supplier.id"], <<>>) >>
    ELSE <<>>

\* The supplier-id check: the errors it adds.
SupplierCheck(product, supplierId) ==
    LET parsedSupplierId == Number(product["supplier.id"])
    IN  IF parsedSupplierId = NaN \/ parsedSupplierId # Number(supplierId)
        THEN << ProcessError("invalid_value", "error", "INVALID_SUPPLIER_ID", "supplier.id",
                             product["catalog_number"], product["supplier.id"], <<>>) >>
        ELSE <<>>

\* A variant of NormalizeCurrency without trim(), against which C4 fails.
NormalizeCurrencyUntrimmed(value) ==
    toUpperCase(IF Truthy(value) THEN String(value) ELSE <<>>)

\* String(product["price.buy.currency"] || "").toUpperCase().trim()
NormalizeCurrency(value) ==
    trim(toUpperCase(IF Truthy(value) THEN String(value) ELSE <<>>))

\* The currency check: [product, errors].
CurrencyCheck(product) ==
    LET currency == NormalizeCurrency(product["price.buy.currency"])
    IN  IF currency \notin validCurrencies
        THEN [product |-> product,
              errors  |-> << ProcessError("invalid_value", "error", "INVALID_CURRENCY",
                                          "price.buy.currency", product["catalog_number"],
                                          product["price.buy.currency"], <<>>) >>]
        ELSE [product |-> [product EXCEPT !["price.buy.currency"] = Str(currency)],
              errors  |-> <<>>]

\* One price amount: validatePriceAmount, then the normalisation: [product, errors].
AmountCheck(product, field) ==
    Bind(validatePriceAmount(product[field], field, product["catalog_number"]), LAMBDA err :
        IF err # <<>>
        THEN [product |-> product, errors |-> err]
        ELSE [product |-> [product EXCEPT ![field] = NormalizeAmount(product[field])],
              errors  |-> <<>>])

\* The promotion amount is checked unless the essential-field check made it null.
PromotionCheck(product) ==
    IF product["price.promotion_price.amount"] # Null
    THEN AmountCheck(product, "price.promotion_price.amount")
    ELSE [product |-> product, errors |-> <<>>]

\* The loop over booleanFields from index i: [product, errors].
RECURSIVE BooleanLoop(_, _)
BooleanLoop(i, acc) ==
    IF i > Len(booleanFields) THEN acc
    ELSE LET field == booleanFields[i]
         IN  Bind(validateBooleanField(acc.product[field], field,
                                       acc.product["catalog_number"]),
                  LAMBDA booleanError :
             Bind(IF booleanError # <<>>
                  THEN [acc EXCEPT !.errors = @ \o booleanError]
                  ELSE [acc EXCEPT !.product[field] = parseBoolean(acc.product[field])],
                  LAMBDA next : BooleanLoop(i + 1, next)))

\* All the checks of a product that has a catalog number, after the duplicate
\* check: [product, errors], the product as the checks leave it.
FieldChecks(product, supplierId, additionalFieldNames, fields) ==
    Bind(getAllKeysWithDotNotation(product), LAMBDA allKeys :
    Bind(UnrecognizedLoop(allKeys, product, additionalFieldNames), LAMBDA unrec :
    Bind(EssentialLoop(1, [product |-> product, errors |-> <<>>]), LAMBDA ess :
    Bind(SupplierCheck(ess.product, supplierId), LAMBDA sup :
    Bind(CurrencyCheck(ess.product), LAMBDA cur :
    Bind(AmountCheck(cur.product, "price.buy.amount"), LAMBDA buy :
    Bind(PromotionCheck(buy.product), LAMBDA promo :
    Bind(BooleanLoop(1, [product |-> promo.product, errors |-> <<>>]), LAMBDA bool :
    Bind(validateAdditionalFields(bool.product, additionalFieldNames, fields), LAMBDA add :
        [product |-> add.product,
         errors  |-> unrec \o ess.errors \o sup \o cur.errors \o buy.errors
                     \o promo.errors \o bool.errors \o add.errors])))))))))

MissingCatalogError ==
    ProcessError("missing_field", "error", "MISSING_OR_INVALID_CATALOG_NUMBER",
                 "catalog_number", Undef, Undef, <<>>)

\* { ...product, validated: true }
Validated(product) == [product |-> product, validated |-> TRUE]

\* A variant of ProcessProduct in which a product that ends with a diagnostic
\* gives its catalog number back, against which C21 fails.
ProcessProductValidOnly(product, supplierId, additionalFieldNames, fields, st) ==
    IF CatalogMissing(product)
    THEN [st EXCEPT !.errors = Append(@, MissingCatalogError),
                    !.products = Append(@, product),
                    !.specific = Append(@, <<MissingCatalogError>>)]
    ELSE Bind(DuplicateCheck(product["catalog_number"], st.chunkSet, st.globalSet),
              LAMBDA dup :
         Bind(FieldChecks(product, supplierId, additionalFieldNames, fields), LAMBDA chk :
         LET productSpecificErrors == dup.errors \o chk.errors
         IN  [errors         |-> st.errors \o productSpecificErrors,
              finalValidData |-> IF Len(productSpecificErrors) > 0
                                 THEN st.finalValidData
                                 ELSE Append(st.finalValidData, Validated(chk.product)),
              chunkSet       |-> IF Len(productSpecificErrors) > 0
                                 THEN st.chunkSet ELSE dup.chunkSet,
              globalSet      |-> IF Len(productSpecificErrors) > 0
                                 THEN st.globalSet ELSE dup.globalSet,
              products       |-> Append(st.products, chk.product),
              specific       |-> Append(st.specific, productSpecificErrors)]))

\* A variant of ProcessProduct that puts every product with a catalog number
\* in the valid output, against which C23 fails.
ProcessProductKeepsAll(product, supplierId, additionalFieldNames, fields, st) ==
    IF CatalogMissing(product)
    THEN [st EXCEPT !.errors = Append(@, MissingCatalogError),
                    !.products = Append(@, product),
                    !.specific = Append(@, <<MissingCatalogError>>)]
    ELSE Bind(DuplicateCheck(product["catalog_number"], st.chunkSet, st.globalSet),
              LAMBDA dup :
         Bind(FieldChecks(product, supplierId, additionalFieldNames, fields), LAMBDA chk :
         LET productSpecificErrors == dup.errors \o chk.errors
         IN  [errors         |-> st.errors \o productSpecificErrors,
              finalValidData |-> Append(st.finalValidData, Validated(chk.product)),
              chunkSet       |-> dup.chunkSet,
              globalSet      |-> dup.globalSet,
              products       |-> Append(st.products, chk.product),
              specific       |-> Append(st.specific, productSpecificErrors)]))

\* The body of the loop for one product.  st = [errors, finalValidData, chunkSet,
\* globalSet, products, specific]: products are the chunk's objects as the loop
\* leaves them, specific[i] is productSpecificErrors of the i-th iteration.
ProcessProduct(product, supplierId, additionalFieldNames, fields, st) ==
    IF CatalogMissing(product)
    THEN [st EXCEPT !.errors = Append(@, MissingCatalogError),
                    !.products = Append(@, product),
                    !.specific = Append(@, <<MissingCatalogError>>)]
    ELSE Bind(DuplicateCheck(product["catalog_number"], st.chunkSet, st.globalSet),
              LAMBDA dup :
         Bind(FieldChecks(product, supplierId, additionalFieldNames, fields), LAMBDA chk :
         LET productSpecificErrors == dup.errors \o chk.errors
         IN  [errors         |-> st.errors \o productSpecificErrors,
              finalValidData |-> IF Len(productSpecificErrors) > 0
                                 THEN st.finalValidData
                                 ELSE Append(st.finalValidData, Validated(chk.product)),
              chunkSet       |-> dup.chunkSet,
              globalSet      |-> dup.globalSet,
              products       |-> Append(st.products, chk.product),
              specific       |-> Append(st.specific, productSpecificErrors)]))

RECURSIVE ChunkLoop(_, _, _, _, _)
ChunkLoop(chunk, supplierId, additionalFieldNames, fields, st) ==
    IF chunk = <<>> THEN st
    ELSE Bind(ProcessProduct(Head(chunk), supplierId, additionalFieldNames, fields, st),
              LAMBDA next :
              ChunkLoop(Tail(chunk), supplierId, additionalFieldNames, fields, next))

\* processProductChunk: [errors, finalValidData] as returned, globalSet as the
\* call leaves the set it was handed, products as it leaves the chunk's objects.
processProductChunk(chunk, supplierId, additionalFieldNames, fields, globalSet) ==
    ChunkLoop(chunk, supplierId, additionalFieldNames, fields,
              [errors |-> <<>>, finalValidData |-> <<>>, chunkSet |-> {},
               globalSet |-> globalSet, products |-> <<>>, specific |-> <<>>])

\* splitIntoChunks
RECURSIVE splitIntoChunks(_, _)
splitIntoChunks(array, chunkSize) ==
    IF array = <<>> THEN <<>>
    ELSE IF Len(array) <= chunkSize THEN <<array>>
    ELSE <<SubSeq(array, 1, chunkSize)>>
         \o splitIntoChunks(SubSeq(array, chunkSize + 1, Len(array)), chunkSize)

\* ------------------------------------------------------------------------
\* generateMetadataHash (src/lib/metadata-utils.ts)
\* ------------------------------------------------------------------------

sampleSize == 1

\* crypto.createHash("sha256")...digest("hex"), taken as collision-free: the
\* digest stands for its input.
Sha256(data) == [sha256 |-> data]

\* JSON.stringify of a cell value: a string and a number with the same digits
\* differ, NaN prints as null.
JsonValue(v) ==
    CASE v.t = "str"  -> <<"string", v.s>>
      [] v.t = "num"  -> <<"number", NumChars(v)>>
      [] v.t = "bool" -> <<"boolean", String(v)>>
      [] v.t = "arr"  -> <<"array", v.a>>
      [] OTHER        -> <<"null", <<>> >>

\* JSON.stringify of a product: its own keys in order, each with its value.
JsonProduct(product) ==
    LET keys == ObjectKeys(product)
    IN  [i \in 1..Len(keys) |-> <<keys[i], JsonValue(product[keys[i]])>>]

JsonProducts(products) == [i \in 1..Len(products) |-> JsonProduct(products[i])]

Min2(a, b) == IF a <= b THEN a ELSE b

Max2(a, b) == IF a >= b THEN a ELSE b

\* Array.prototype.slice(from, to) with 0-based bounds inside the array.
Slice(array, from, to) == SubSeq(array, from + 1, to)

\* A variant of SampledProducts that takes every product, against which C30
\* fails.
SampledProductsAll(products) == products

\* A variant of SampledProducts that samples the first product only, against
\* which C8 fails.
SampledProductsFirstOnly(products) ==
    IF Len(products) > 0 THEN Slice(products, 0, Min2(sampleSize, Len(products))) ELSE <<>>

\* The products sampled: the first, the middle one when there are more than
\* two, the last when there is more than one.
SampledProducts(products) ==
    LET n           == Len(products)
        middleIndex == n \div 2
        first  == Slice(products, 0, Min2(sampleSize, n))
        middle == IF n > sampleSize * 2
                  THEN Slice(products,
                             Max2(0, middleIndex - (sampleSize \div 2)),
                             Min2(n, middleIndex + ((sampleSize + 1) \div 2)))
                  ELSE <<>>
        last   == IF n > sampleSize
                  THEN Slice(products, Max2(0, n - sampleSize), n)
                  ELSE <<>>
    IN  IF n > 0 THEN first \o middle \o last ELSE <<>>

\* The try branch: serialising strings, numbers, booleans and null never throws.
generateMetadataHash(metadata, products) ==
    LET metadataHash == Sha256(metadata)
        productsHash == Sha256(JsonProducts(SampledProducts(products)))
        totalCount   == NatChars(Len(products))
    IN  Sha256(<<metadataHash, productsHash, totalCount>>)

\* ------------------------------------------------------------------------
\* The BluePrint store (src/unnamed/part_002) and its update
\* ------------------------------------------------------------------------

NoBluePrint == [exists |-> FALSE, files |-> <<>>]

\* A variant of AddToSet that appends whatever the array holds ($push), against
\* which C9 fails.
AddToSetPush(doc, hash) == [exists |-> TRUE, files |-> Append(doc.files, hash)]

\* findOneAndUpdate({name}, {$addToSet: {files: hash}}, {upsert: true}): the
\* document is created when absent, the hash appended unless already there.
AddToSet(doc, hash) ==
    [exists |-> TRUE, files |-> IF hash \in Range(doc.files) THEN doc.files
                                ELSE Append(doc.files, hash)]

\* ------------------------------------------------------------------------
\* Inputs: the rows a sheet can hold
\* ------------------------------------------------------------------------

\* A row in which every check passes: amount "12,50", currency "eur",
\* supplier "5", flags "True" / "false" / true, species "human".
GoodRow(catalog) ==
    [k \in Keys |->
        CASE k = "name"                         -> Str(<<"k","i","t">>)
          [] k = "catalog_number"               -> Str(catalog)
          [] k = "supplier_catalog_number"      -> Str(<<"S","9">>)
          [] k = "supplier.id"                  -> Str(<<"5">>)
          [] k = "price.buy.currency"           -> Str(<<"e","u","r">>)
          [] k = "price.buy.amount"             -> Str(<<"1","2",",","5","0">>)
          [] k = "price.promotion_price.amount" -> Undef
          [] k = "shipment.dry_ice"             -> Str(<<"T","r","u","e">>)
          [] k = "size"                         -> Str(<<"1","m","l">>)
          [] k = "available"                    -> Str(<<"f","a","l","s","e">>)
          [] k = "display"                      -> Bool(TRUE)
          [] k = "species"                      ->
               Str(<<"h","u","m","a","n">>)
          [] k = "note"                         -> Str(<<"o","k">>)
          [] OTHER                              -> Undef]

A1 == <<"A","1">>

B2 == <<"B","2">>

BooleanCells ==
    { Str(<<"Y","E","S">>), Str(<<"v","r","a","i">>), Str(<<"n","o">>),
      Str(<<"F","A","U","X">>), Str(<<" ","t","r","u","e"," ">>),
      Str(<<"m","a","y","b","e">>), Str(<<>>), Bool(FALSE) }

AmountCells ==
    { Str(<<"0">>), Str(<<"a","b","c">>), Str(<<"-","3">>), Str(<<"1","2","a","b","c">>),
      Str(<<"1",",","5",",","7">>), Str(<<>>), Num(125, 1), Num(-3, 0) }

\* The values a cell of each column can take besides the one of GoodRow.
OtherCells(k) ==
    CASE k = "name" -> { Undef, Null, Str(<<" ">>) }
      [] k = "catalog_number" ->
           { Str(B2), Str(<<>>), Str(<<" ">>), Undef, Num(42, 0) }
      [] k = "supplier_catalog_number" -> { Undef }
      [] k = "supplier.id" ->
           { Str(<<"7">>), Str(<<" ","5"," ">>), Str(<<"5",".","0">>), Str(<<"5","a">>),
             Str(<<>>), Num(5, 0), Num(7, 0) }
      [] k = "price.buy.currency" ->
           { Str(<<"E","U","R">>), Str(<<" ","E","u","r"," ">>), Str(<<"X","Y","Z">>),
             Str(<<"E","U","R","O">>), Str(<<>>), Num(5, 0) }
      [] k = "price.buy.amount" -> AmountCells
      [] k = "price.promotion_price.amount" -> AmountCells \cup { Str(<<"9",",","9","9">>) }
      [] k = "shipment.dry_ice" -> BooleanCells
      [] k = "size" -> { Undef }
      [] k = "available" -> BooleanCells
      [] k = "display" -> BooleanCells
      [] k = "species" ->
           { Str(<<"M","o","u","s","e",",","H","u","m","a","n">>),
             Str(<<"c","a","t",",","H","o","m","o">>), Str(<<"h","u","-","m","a","n">>),
             Str(<<"m","o","u","s","e"," ","h","o","m","o",",","c","a","t">>),
             Str(<<"N","/","A">>), Str(<<",">>), Str(<<>>), Undef }
      [] k = "note" ->
           { Str(<<" ","x"," ">>), Str(<<"n","/","a">>), Str(<<>>), Undef, Num(0, 0),
             Num(7, 0) }
      [] OTHER -> { Str(<<"7">>), Str(<<>>) }

\* How many cells of a row may differ from GoodRow at once.
MaxVaried == 1

\* A changed cell: <<column, value>>.
CellChanges == UNION { { <<k, v>> : v \in OtherCells(k) } : k \in Keys }

\* The row with the cells of changes written into it, in order.
RECURSIVE WithCells(_, _)
WithCells(row, changes) ==
    IF changes = <<>> THEN row
    ELSE WithCells([row EXCEPT ![Head(changes)[1]] = Head(changes)[2]], Tail(changes))

\* ------------------------------------------------------------------------
\* Bounds
\* ------------------------------------------------------------------------

\* Rows in one uploaded file (run specification).
MaxProducts == 2

\* CHUNK_SIZE ranges over 1..MaxChunkSize (500 in the source).
MaxChunkSize == 2

\* Requests served one after the other against the same store.
MaxRuns == 2

\* ------------------------------------------------------------------------
\* The messages of the event stream
\* ------------------------------------------------------------------------

NoReport == [totalProducts |-> 0, validProducts |-> 0, errors |-> 0,
             duplications |-> 0, warnings |-> 0]

Msg(type, severity, code, message) ==
    [type |-> type, severity |-> severity, code |-> code, message |-> message,
     details |-> <<>>, report |-> NoReport]

Connected == Msg("info", "info", "", "Database connected, starting process...")

\* Array.prototype.filter on diagnostics.
FilterErrors(es, Keep(_)) == SelectSeq(es, Keep)

IsValidationError(e) ==
    /\ e.type \in {"validation", "missing_field", "invalid_value", "system_error",
                   "permission_denied", "file_error"}
    /\ e.severity = "error"

IsDuplicationError(e) == e.type = "duplication" /\ e.severity = "error"

IsWarning(e) == e.severity = "warning"

\* The line of details of a validation error or of a warning:
\* "[code] message (Field: field) (Product: catalogNumber)".
DetailLine(e) == [code |-> e.code, field |-> e.field, product |-> e.catalogNumber]

\* The line of details of a duplication error: "[code] message (Product: ...)".
DuplicationLine(e) == [code |-> e.code, product |-> e.catalogNumber]

\* batch.map(e => ...) of the validation batches and of the warning summary.
DetailLines(es) == [i \in 1..Len(es) |-> DetailLine(es[i])]

\* duplicationErrors.map(e => ...)
DuplicationLines(es) == [i \in 1..Len(es) |-> DuplicationLine(es[i])]

\* The display batches of validation errors: splitIntoChunks(validationErrors, 50).
ErrorBatchSize == 50

RECURSIVE BatchMessages(_)
BatchMessages(batches) ==
    IF batches = <<>> THEN <<>>
    ELSE << [Msg("validation", "error", "VALIDATION_BATCH", "Validation errors found")
               EXCEPT !.details = DetailLines(Head(batches))] >>
         \o BatchMessages(Tail(batches))

\* "Processed n products..." is sent whenever processedRows % CHUNK_SIZE = 0.
RECURSIVE ProgressMessages(_, _)
ProgressMessages(n, size) ==
    IF n < size THEN <<>>
    ELSE ProgressMessages(n - size, size)
         \o << Msg("info", "info", "", "Processed products...") >>

\* The one sheet of the file: its name, its data rows, its header row.
SheetMetadata(rows) ==
    << [sheetName |-> "Sheet1", rowCount |-> Len(rows), headers |-> ColumnOrder] >>

\* ------------------------------------------------------------------------
\* State
\* ------------------------------------------------------------------------

VARIABLES
    pc,                            \* where the run step (GET) stands
    runNo,                         \* requests started so far
    chunkSize,                     \* CHUNK_SIZE
    tempFile,                      \* the uploaded file: [exists, sheets (once read), unlink]
    request,                       \* [supplierId, filePath] of the query string
    fullPathRef,                   \* TRUE once fullPathRef.value is set
    allProducts,                   \* the product objects of the run
    metadataHash,                  \* the fingerprint of the run
    currentChunkIndex,
    globalSupplierCatalogNumbers,
    allProcessingErrors,
    calls,                         \* each processProductChunk call: [chunk, before, result]
    bluePrint,                     \* the document "auto-checker": [exists, files]
    bluePrintAtStart,              \* the store as the request found it
    saved,                         \* updates of the store made by this run
    stream,                        \* the messages sent, in order
    closed,                        \* controller.close() was called
    hashInputs,                    \* arguments of generateMetadataHash still to call
    hashCalls,                     \* its calls so far: [metadata, products, hash]
    chunkInputs,                   \* chunks still to hand to processProductChunk
    sheetInputs,                   \* workbooks still to read
    readCalls,                     \* the workbooks read so far: [sheets, result]
    aggressiveRegexCache,          \* the module-level Map of createAggressiveRegex
    regexCall,                     \* its last call: [input, hit, before (size), result]
    runs                           \* the locals of the run steps in flight together

vars == << pc, runNo, chunkSize, tempFile, request, fullPathRef, allProducts,
           metadataHash, currentChunkIndex, globalSupplierCatalogNumbers,
           allProcessingErrors, calls, bluePrint, bluePrintAtStart, saved, stream,
           closed, hashInputs, hashCalls, chunkInputs, sheetInputs, readCalls,
           aggressiveRegexCache, regexCall, runs >>

NoHash == Sha256(<<>>)

ExpectedSupplier == Num(5, 0)

\* The query strings drawn: complete, without supplierId, without filePath.
Requests ==
    { [supplierId |-> ExpectedSupplier, filePath |-> TRUE],
      [supplierId |-> Num(0, 0), filePath |-> TRUE],
      [supplierId |-> ExpectedSupplier, filePath |-> FALSE] }

\* Sequences over S of length lo..hi.
SeqsOf(S, lo, hi) == UNION { [1..n -> S] : n \in lo..hi }

\* The rows of the files of the run specification: a valid row, a row that is
\* valid but for an unrecognized column, a row with two errors.
RunRows ==
    { GoodRow(A1),
      [GoodRow(B2) EXCEPT !["lot"] = Str(<<"7">>)],
      [GoodRow(A1) EXCEPT !["price.buy.currency"] = Str(<<"X","Y","Z">>),
                          !["available"] = Str(<<"m","a","y","b","e">>)] }

\* ------------------------------------------------------------------------
\* The run step: GET
\* ------------------------------------------------------------------------

\* A request arrives: the stream opens with the "connected" frame.
StartRun ==
    /\ pc = "idle"
    /\ runNo < MaxRuns
    /\ \E req \in Requests, present \in BOOLEAN :
             /\ request' = req
             /\ tempFile' = [exists |-> present, sheets |-> <<>>, unlink |-> "none"]
    /\ pc' = "params"
    /\ runNo' = runNo + 1
    /\ fullPathRef' = FALSE
    /\ allProducts' = <<>>
    /\ metadataHash' = NoHash
    /\ currentChunkIndex' = 0
    /\ globalSupplierCatalogNumbers' = {}
    /\ allProcessingErrors' = <<>>
    /\ calls' = <<>>
    /\ bluePrintAtStart' = bluePrint
    /\ saved' = 0
    /\ stream' = << Connected >>
    /\ closed' = FALSE
    /\ UNCHANGED << chunkSize, bluePrint, hashInputs, hashCalls, chunkInputs, sheetInputs,
                    readCalls, aggressiveRegexCache, regexCall, runs >>

\* The parameter and file checks.
CheckParams ==
    /\ pc = "params"
    /\ IF request.supplierId.m = 0 \/ ~request.filePath
       THEN /\ stream' = Append(stream, Msg("system_error", "error", "MISSING_PARAMS",
                                            "Missing required parameters"))
            /\ pc' = "finally"
            /\ UNCHANGED fullPathRef
       ELSE /\ fullPathRef' = TRUE
            /\ IF ~tempFile.exists
               THEN /\ stream' = Append(stream, Msg("file_error", "error", "FILE_NOT_FOUND",
                                                    "File not found"))
                    /\ pc' = "finally"
               ELSE /\ pc' = "schema"
                    /\ UNCHANGED stream
    /\ UNCHANGED << runNo, chunkSize, tempFile, request, allProducts, metadataHash,
                    currentChunkIndex, globalSupplierCatalogNumbers, allProcessingErrors,
                    calls, bluePrint, bluePrintAtStart, saved, closed, hashInputs, hashCalls, chunkInputs, sheetInputs,
                    readCalls, aggressiveRegexCache, regexCall, runs >>

\* A variant of LoadSchema that reports the missing document and goes on to
\* read the file, against which C17 fails.
LoadSchemaGoesOn ==
    /\ pc = "schema"
    /\ \E found \in BOOLEAN :
          IF found
          THEN stream' = Append(stream, Msg("info", "info", "", "Starting file processing..."))
          ELSE stream' = Append(stream, Msg("system_error", "error", "METADATA_NOT_FOUND",
                                            "Additional fields document not found"))
    /\ pc' = "read"
    /\ UNCHANGED << runNo, chunkSize, tempFile, request, fullPathRef, allProducts,
                    metadataHash, currentChunkIndex, globalSupplierCatalogNumbers,
                    allProcessingErrors, calls, bluePrint, bluePrintAtStart, saved, closed,
                    hashInputs, hashCalls, chunkInputs, sheetInputs, readCalls,
                    aggressiveRegexCache, regexCall, runs >>

\* GentaurProductExtension.findOne: the field-definition document, or none.
LoadSchema ==
    /\ pc = "schema"
    /\ \E found \in BOOLEAN :
          IF found
          THEN /\ stream' = Append(stream, Msg("info", "info", "", "Starting file processing..."))
               /\ pc' = "read"
          ELSE /\ stream' = Append(stream, Msg("system_error", "error", "METADATA_NOT_FOUND",
                                               "Additional fields document not found"))
               /\ pc' = "finally"
    /\ UNCHANGED << runNo, chunkSize, tempFile, request, fullPathRef, allProducts,
                    metadataHash, currentChunkIndex, globalSupplierCatalogNumbers,
                    allProcessingErrors, calls, bluePrint, bluePrintAtStart, saved, closed,
                    hashInputs, hashCalls, chunkInputs, sheetInputs,
                    readCalls, aggressiveRegexCache, regexCall, runs >>

\* A worksheet as the streaming reader yields it: its name, its first row
\* (absent when the sheet yields no row; else the header cells, none when the
\* row has no cell) and the rows after it, each a record of cells by column.
Sheet(sheetName, present, cells, data) ==
    [sheetName |-> sheetName, first |-> [present |-> present, cells |-> cells],
     data |-> data]

\* A sheet with the header row of ColumnOrder.
MainSheet(rows) == Sheet("Sheet1", TRUE, ColumnOrder, rows)

\* A sheet that yields no row at all.
NoRowsSheet == Sheet("Empty", FALSE, <<>>, <<>>)

\* A sheet whose first row has no cell, followed by one row of data.
BlankHeaderSheet == Sheet("Blank", TRUE, <<>>, << GoodRow(B2) >>)

\* The workbooks drawn for a run: the main sheet with the rows drawn, or, as
\* files without products, a sheet without rows, a sheet without header
\* cells, or both.
Workbooks(rows) ==
    { << MainSheet(rows) >> }
    \cup (IF Len(rows) = 0
          THEN { << NoRowsSheet >>, << BlankHeaderSheet >>,
                 << NoRowsSheet, BlankHeaderSheet >> }
          ELSE {})

\* headers, as the branch rowIndex === 1 leaves it.
SheetHeaders(sheet) == IF sheet.first.present THEN sheet.first.cells ELSE <<>>

\* typeof cell.value === 'string' ? cell.value.trim() : cell.value ?? null
ReadCell(v) == IF v.t = "str" THEN Str(trim(v.s)) ELSE v

\* productData of a row: the cells under a header.
ProductData(headers, row) ==
    [k \in Keys |-> IF k \in Range(headers) THEN ReadCell(row[k]) ELSE Undef]

\* Object.keys(productData).length > 0
HasKeys(productData) == \E k \in Keys : productData[k] # Undef

\* sheetProducts
SheetProducts(headers, data) ==
    SelectSeq([i \in 1..Len(data) |-> ProductData(headers, data[i])], HasKeys)

\* noHeaderError, as pushed on allProcessingErrors.
NoHeaderError(sheetName) ==
    [sheetName |-> sheetName]
    @@ ProcessError("file_error", "warning", "NO_SHEET_HEADERS", "", Undef, Undef, <<>>)

\* noHeaderError, as sent.
NoHeaderMessage(sheetName) ==
    [sheetName |-> sheetName]
    @@ Msg("file_error", "warning", "NO_SHEET_HEADERS", "Sheet has no detectable headers")

\* The "Processed n products..." messages sent while processedRows goes from
\* before to after.
ProgressBetween(before, after, size) ==
    SubSeq(ProgressMessages(after, size), Len(ProgressMessages(before, size)) + 1,
           Len(ProgressMessages(after, size)))

\* One turn of the loop over the worksheets.  acc = [metadata, allProducts,
\* errors, messages].
ReadSheet(sheet, acc, size) ==
    LET headers   == SheetHeaders(sheet)
        noHeaders == sheet.first.present /\ Len(headers) = 0
        products  == SheetProducts(headers, sheet.data)
        rowIndex  == IF sheet.first.present THEN 1 + Len(sheet.data) ELSE 0
    IN  [metadata    |-> Append(acc.metadata,
                                [sheetName |-> sheet.sheetName, rowCount |-> rowIndex - 1,
                                 headers |-> headers]),
         allProducts |-> acc.allProducts \o products,
         errors      |-> acc.errors
                         \o (IF noHeaders THEN << NoHeaderError(sheet.sheetName) >> ELSE <<>>),
         messages    |-> acc.messages
                         \o << [sheetName |-> sheet.sheetName]
                               @@ Msg("info", "info", "", "Processing sheet") >>
                         \o (IF noHeaders THEN << NoHeaderMessage(sheet.sheetName) >> ELSE <<>>)
                         \o ProgressBetween(Len(acc.allProducts),
                                            Len(acc.allProducts) + Len(products), size)]

RECURSIVE ReadSheets(_, _, _)
ReadSheets(sheets, acc, size) ==
    IF sheets = <<>> THEN acc
    ELSE Bind(ReadSheet(Head(sheets), acc, size),
              LAMBDA next : ReadSheets(Tail(sheets), next, size))

\* A variant of ReadMessages that ends the run of a file without products on
\* the NO_PRODUCTS_FOUND message alone, against which C12 fails.
ReadMessagesNoSuccess(rows, size) ==
    IF Len(rows) = 0
    THEN << Msg("info", "info", "NO_PRODUCTS_FOUND", "No products found") >>
    ELSE << Msg("info", "info", "", "Finished reading file"),
            Msg("info", "info", "", "Metadata hash generated") >>

\* What is sent after the last sheet.
ReadMessages(rows, size) ==
    IF Len(rows) = 0
    THEN << Msg("info", "info", "NO_PRODUCTS_FOUND", "No products found"),
            Msg("success", "success", "", "Process completed with no products") >>
    ELSE << Msg("info", "info", "", "Finished reading file"),
            Msg("info", "info", "", "Metadata hash generated") >>

\* The workbook is opened and read to its end, then fingerprinted; or the
\* reader cannot be built (EXCEL_OPEN_ERROR); or reading throws, which the
\* outer catch reports.
ReadWorkbook ==
    /\ pc = "read"
    /\ \/ \E rows \in SeqsOf(RunRows, 0, MaxProducts) :
          \E sheets \in Workbooks(rows) :
          \E r \in { ReadSheets(sheets, [metadata |-> <<>>, allProducts |-> <<>>,
                                         errors |-> <<>>, messages |-> <<>>],
                                chunkSize) } :
             /\ tempFile' = [tempFile EXCEPT !.sheets = sheets]
             /\ allProducts' = r.allProducts
             /\ allProcessingErrors' = r.errors
             /\ stream' = stream \o r.messages \o ReadMessages(r.allProducts, chunkSize)
             /\ metadataHash' = IF Len(r.allProducts) = 0 THEN metadataHash
                                ELSE generateMetadataHash(r.metadata, r.allProducts)
             /\ pc' = IF Len(r.allProducts) = 0 THEN "finally" ELSE "validate"
       \/ /\ stream' = Append(stream, Msg("file_error", "error", "EXCEL_OPEN_ERROR",
                                           "Error opening Excel file"))
          /\ pc' = "finally"
          /\ UNCHANGED << tempFile, allProducts, metadataHash, allProcessingErrors >>
       \/ /\ stream' = stream \o
                 << [sheetName |-> "Sheet1"] @@ Msg("info", "info", "", "Processing sheet"),
                    Msg("system_error", "error", "UNEXPECTED_SERVER_ERROR",
                        "An unexpected server error occurred") >>
          /\ pc' = "finally"
          /\ UNCHANGED << tempFile, allProducts, metadataHash, allProcessingErrors >>
    /\ UNCHANGED << runNo, chunkSize, request, fullPathRef, currentChunkIndex,
                    globalSupplierCatalogNumbers, calls, bluePrint,
                    bluePrintAtStart, saved, closed, hashInputs, hashCalls, chunkInputs, sheetInputs,
                    readCalls, aggressiveRegexCache, regexCall, runs >>

\* One turn of the loop over splitIntoChunks(allProducts, CHUNK_SIZE).
ValidateChunk ==
    /\ pc = "validate"
    /\ \E chunks \in { splitIntoChunks(allProducts, chunkSize) } :
       \E chunk \in { chunks[currentChunkIndex + 1] } :
       \E r \in { processProductChunk(chunk, request.supplierId,
                                      AdditionalFieldNames(Fields), Fields,
                                      globalSupplierCatalogNumbers) } :
       LET from == currentChunkIndex * chunkSize
       IN  /\ currentChunkIndex' = currentChunkIndex + 1
           /\ stream' = Append(stream, Msg("info", "info", "", "Processing validation chunk"))
           /\ allProducts' = [i \in 1..Len(allProducts) |->
                                 IF i > from /\ i <= from + Len(chunk)
                                 THEN r.products[i - from] ELSE allProducts[i]]
           /\ globalSupplierCatalogNumbers' = r.globalSet
           /\ allProcessingErrors' = allProcessingErrors \o r.errors
           /\ calls' = Append(calls, [chunk  |-> chunk,
                                      before |-> globalSupplierCatalogNumbers,
                                      result |-> r])
           /\ pc' = IF currentChunkIndex + 1 = Len(chunks) THEN "summary" ELSE "validate"
    /\ UNCHANGED << runNo, chunkSize, tempFile, request, fullPathRef, metadataHash,
                    bluePrint, bluePrintAtStart, saved, closed, hashInputs, hashCalls, chunkInputs, sheetInputs,
                    readCalls, aggressiveRegexCache, regexCall, runs >>

\* What the summary sends before the store is touched.
SummaryMessages(validationErrors, duplicationErrors, warningMessages) ==
    BatchMessages(splitIntoChunks(validationErrors, ErrorBatchSize))
    \o (IF Len(duplicationErrors) > 0
        THEN << [Msg("duplication", "error", "DUPLICATION_SUMMARY", "Duplication errors found")
                   EXCEPT !.details = DuplicationLines(duplicationErrors)] >>
        ELSE <<>>)
    \o (IF Len(warningMessages) > 0
        THEN << [Msg("warning", "warning", "WARNING_SUMMARY", "Warnings found")
                   EXCEPT !.details = DetailLines(warningMessages)] >>
        ELSE <<>>)

FinalSummary(total, validationErrors, duplicationErrors, warningMessages) ==
    [Msg("summary_report", "info", "FINAL_SUMMARY", "Processing Summary")
       EXCEPT !.report =
         [totalProducts |-> total,
          validProducts |-> total - Len(validationErrors) - Len(duplicationErrors),
          errors        |-> Len(validationErrors),
          duplications  |-> Len(duplicationErrors),
          warnings      |-> Len(warningMessages)]]

\* The summary, the update of the BluePrint store (which may throw), the
\* final report.
Summarise ==
    /\ pc = "summary"
    /\ LET validationErrors  == FilterErrors(allProcessingErrors, IsValidationError)
           duplicationErrors == FilterErrors(allProcessingErrors, IsDuplicationError)
           warningMessages   == FilterErrors(allProcessingErrors, IsWarning)
           head == SummaryMessages(validationErrors, duplicationErrors, warningMessages)
           tail == << FinalSummary(Len(allProducts), validationErrors, duplicationErrors,
                                   warningMessages),
                      Msg("success", "success", "", "Process Completed.") >>
       IN  IF Len(validationErrors) = 0 /\ Len(duplicationErrors) = 0
           THEN \E updated \in BOOLEAN :
                   IF updated
                   THEN /\ bluePrint' = AddToSet(bluePrint, metadataHash)
                        /\ saved' = saved + 1
                        /\ stream' = stream \o head
                              \o << Msg("success", "success", "", "All products passed validation."),
                                    Msg("success", "success", "", "Blue Print Saved") >>
                              \o tail
                   ELSE /\ UNCHANGED << bluePrint, saved >>
                        /\ stream' = stream \o head
                              \o << Msg("system_error", "error", "BLUEPRINT_SAVE_FAILED",
                                        "Failed to save BluePrint") >>
                              \o tail
           ELSE /\ UNCHANGED << bluePrint, saved >>
                /\ stream' = stream \o head
                      \o << Msg("info", "info", "", "BluePrint not updated.") >>
                      \o tail
    /\ pc' = "finally"
    /\ UNCHANGED << runNo, chunkSize, tempFile, request, fullPathRef, allProducts,
                    metadataHash, currentChunkIndex, globalSupplierCatalogNumbers,
                    allProcessingErrors, calls, bluePrintAtStart, closed, hashInputs,
                    hashCalls, chunkInputs, sheetInputs,
                    readCalls, aggressiveRegexCache, regexCall, runs >>

\* The finally block: when fullPathRef names an existing file, unlinkSync
\* removes it, or throws and the inner catch reports it; then the stream is
\* closed.
Finally ==
    /\ pc = "finally"
    /\ IF fullPathRef /\ tempFile.exists
       THEN \/ /\ tempFile' = [tempFile EXCEPT !.exists = FALSE, !.unlink = "done"]
               /\ stream' = Append(stream, Msg("info", "info", "",
                                               "Temporary file cleaned up successfully."))
            \/ /\ tempFile' = [tempFile EXCEPT !.unlink = "failed"]
               /\ stream' = Append(stream, Msg("system_error", "error",
                                               "TEMP_FILE_CLEANUP_FAILED",
                                               "Error cleaning up temporary file"))
       ELSE UNCHANGED << tempFile, stream >>
    /\ closed' = TRUE
    /\ pc' = "done"
    /\ UNCHANGED << runNo, chunkSize, request, fullPathRef, allProducts, metadataHash,
                    currentChunkIndex, globalSupplierCatalogNumbers, allProcessingErrors,
                    calls, bluePrint, bluePrintAtStart, saved, hashInputs, hashCalls, chunkInputs, sheetInputs,
                    readCalls, aggressiveRegexCache, regexCall, runs >>

\* The request is over: its locals, its stream and the name of its temporary
\* file are gone; the store and the module constants stay.
Release ==
    /\ pc \in {"done", "cancelled"}
    /\ pc' = "idle"
    /\ tempFile' = [exists |-> FALSE, sheets |-> <<>>, unlink |-> "none"]
    /\ request' = [supplierId |-> ExpectedSupplier, filePath |-> TRUE]
    /\ fullPathRef' = FALSE
    /\ allProducts' = <<>>
    /\ metadataHash' = NoHash
    /\ currentChunkIndex' = 0
    /\ globalSupplierCatalogNumbers' = {}
    /\ allProcessingErrors' = <<>>
    /\ calls' = <<>>
    /\ bluePrintAtStart' = NoBluePrint
    /\ saved' = 0
    /\ stream' = <<>>
    /\ closed' = FALSE
    /\ UNCHANGED << runNo, chunkSize, bluePrint, hashInputs, hashCalls, chunkInputs, sheetInputs,
                    readCalls, aggressiveRegexCache, regexCall, runs >>

\* No request is being served, the store is empty.
Quiet ==
    /\ pc = "idle"
    /\ runNo = 0
    /\ tempFile = [exists |-> FALSE, sheets |-> <<>>, unlink |-> "none"]
    /\ request = [supplierId |-> ExpectedSupplier, filePath |-> TRUE]
    /\ fullPathRef = FALSE
    /\ allProducts = <<>>
    /\ metadataHash = NoHash
    /\ currentChunkIndex = 0
    /\ globalSupplierCatalogNumbers = {}
    /\ allProcessingErrors = <<>>
    /\ calls = <<>>
    /\ bluePrint = NoBluePrint
    /\ bluePrintAtStart = NoBluePrint
    /\ saved = 0
    /\ stream = <<>>
    /\ closed = FALSE

\* No workbook is waiting to be read on its own.
NoReads == sheetInputs = <<>> /\ readCalls = <<>>

\* The module was just loaded: the Map of createAggressiveRegex is empty.
NoRegexCall == [input |-> <<>>, hit |-> FALSE, before |-> 0, result |-> <<>>]

EmptyCache == aggressiveRegexCache = {} /\ regexCall = NoRegexCall

\* No run steps are in flight together.
NoRuns == runs = <<>>

Init ==
    /\ Quiet
    /\ NoReads
    /\ EmptyCache
    /\ NoRuns
    /\ chunkSize \in 1..MaxChunkSize
    /\ hashInputs = <<>>
    /\ hashCalls = <<>>
    /\ chunkInputs = <<>>

Next ==
    \/ StartRun
    \/ CheckParams
    \/ LoadSchema
    \/ ReadWorkbook
    \/ ValidateChunk
    \/ Summarise
    \/ Finally
    \/ Release

Spec == Init /\ [][Next]_vars

\* ------------------------------------------------------------------------
\* The consumer cancels the stream
\* ------------------------------------------------------------------------

\* Once the consumer has cancelled, controller.enqueue throws.  The send of
\* the try block that comes next throws, the send of the catch block throws
\* too, and control passes to the finally block ("aborted").  The locals of
\* the try block are dead from then on and are left as they were.

\* Cancelled during the parameter checks: the send of MISSING_PARAMS or of
\* FILE_NOT_FOUND throws or, the checks passed, the send after the lookup of
\* the field definitions.
CancelInParams ==
    /\ pc = "params"
    /\ fullPathRef' = (request.supplierId.m # 0 /\ request.filePath)
    /\ pc' = "aborted"
    /\ UNCHANGED << runNo, chunkSize, tempFile, request, allProducts, metadataHash,
                    currentChunkIndex, globalSupplierCatalogNumbers, allProcessingErrors,
                    calls, bluePrint, bluePrintAtStart, saved, stream, closed, hashInputs,
                    hashCalls, chunkInputs, sheetInputs, readCalls, aggressiveRegexCache,
                    regexCall, runs >>

\* Cancelled before the send that follows the lookup of the field definitions,
\* or before the send that opens a turn of the loop over the chunks.
CancelBeforeSend ==
    /\ pc \in {"schema", "validate"}
    /\ pc' = "aborted"
    /\ UNCHANGED << runNo, chunkSize, tempFile, request, fullPathRef, allProducts,
                    metadataHash, currentChunkIndex, globalSupplierCatalogNumbers,
                    allProcessingErrors, calls, bluePrint, bluePrintAtStart, saved, stream,
                    closed, hashInputs, hashCalls, chunkInputs, sheetInputs, readCalls,
                    aggressiveRegexCache, regexCall, runs >>

\* Cancelled while the workbook is read: some of the messages of the reading
\* were sent, the next one throws.
CancelInRead ==
    /\ pc = "read"
    /\ \E rows \in SeqsOf(RunRows, 0, MaxProducts) :
       \E sheets \in Workbooks(rows) :
       \E r \in { ReadSheets(sheets, [metadata |-> <<>>, allProducts |-> <<>>,
                                      errors |-> <<>>, messages |-> <<>>],
                             chunkSize) } :
       \E msgs \in { r.messages \o ReadMessages(r.allProducts, chunkSize) } :
       \E sent \in 0..(Len(msgs) - 1) :
          stream' = stream \o SubSeq(msgs, 1, sent)
    /\ pc' = "aborted"
    /\ UNCHANGED << runNo, chunkSize, tempFile, request, fullPathRef, allProducts, metadataHash,
                    currentChunkIndex, globalSupplierCatalogNumbers, allProcessingErrors,
                    calls, bluePrint, bluePrintAtStart, saved, closed, hashInputs,
                    hashCalls, chunkInputs, sheetInputs, readCalls, aggressiveRegexCache,
                    regexCall, runs >>

\* Cancelled during the summary: some of its messages were sent, the next one
\* throws.  The store was updated when the cancelled send comes after the
\* update.
CancelInSummary ==
    /\ pc = "summary"
    /\ LET validationErrors  == FilterErrors(allProcessingErrors, IsValidationError)
           duplicationErrors == FilterErrors(allProcessingErrors, IsDuplicationError)
           warningMessages   == FilterErrors(allProcessingErrors, IsWarning)
           head == SummaryMessages(validationErrors, duplicationErrors, warningMessages)
           tail == << FinalSummary(Len(allProducts), validationErrors, duplicationErrors,
                                   warningMessages),
                      Msg("success", "success", "", "Process Completed.") >>
           clean == Len(validationErrors) = 0 /\ Len(duplicationErrors) = 0
       IN  \E updated \in { u \in BOOLEAN : clean \/ ~u } :
           \E middle \in { IF ~clean THEN << Msg("info", "info", "", "BluePrint not updated.") >>
                           ELSE IF updated
                           THEN << Msg("success", "success", "", "All products passed validation."),
                                   Msg("success", "success", "", "Blue Print Saved") >>
                           ELSE << Msg("system_error", "error", "BLUEPRINT_SAVE_FAILED",
                                       "Failed to save BluePrint") >> } :
           \E sent \in 0..(Len(head \o middle \o tail) - 1) :
              /\ stream' = stream \o SubSeq(head \o middle \o tail, 1, sent)
              /\ IF updated /\ sent >= Len(head)
                 THEN /\ bluePrint' = AddToSet(bluePrint, metadataHash)
                      /\ saved' = saved + 1
                 ELSE UNCHANGED << bluePrint, saved >>
    /\ pc' = "aborted"
    /\ UNCHANGED << runNo, chunkSize, tempFile, request, fullPathRef, allProducts,
                    metadataHash, currentChunkIndex, globalSupplierCatalogNumbers,
                    allProcessingErrors, calls, bluePrintAtStart, closed, hashInputs,
                    hashCalls, chunkInputs, sheetInputs, readCalls, aggressiveRegexCache,
                    regexCall, runs >>

\* A variant of CancelledFinally in which the exception of the cancelled
\* send ends the run before the file is removed, against which C14 fails.
CancelledWithoutCleanup ==
    /\ pc \in {"aborted", "finally"}
    /\ pc' = "cancelled"
    /\ UNCHANGED << runNo, chunkSize, tempFile, request, fullPathRef, allProducts,
                    metadataHash, currentChunkIndex, globalSupplierCatalogNumbers,
                    allProcessingErrors, calls, bluePrint, bluePrintAtStart, saved, stream,
                    closed, hashInputs, hashCalls, chunkInputs, sheetInputs, readCalls,
                    aggressiveRegexCache, regexCall, runs >>

\* The finally block of a cancelled run (cancelled in the try block, or after
\* it): unlinkSync removes the file or throws; the send that follows throws,
\* so does the send of the inner catch, and controller.close() is not reached.
CancelledFinally ==
    /\ pc \in {"aborted", "finally"}
    /\ IF fullPathRef /\ tempFile.exists
       THEN \/ tempFile' = [tempFile EXCEPT !.exists = FALSE, !.unlink = "done"]
            \/ tempFile' = [tempFile EXCEPT !.unlink = "failed"]
       ELSE UNCHANGED tempFile
    /\ pc' = "cancelled"
    /\ UNCHANGED << runNo, chunkSize, request, fullPathRef, allProducts, metadataHash,
                    currentChunkIndex, globalSupplierCatalogNumbers, allProcessingErrors,
                    calls, bluePrint, bluePrintAtStart, saved, stream, closed, hashInputs,
                    hashCalls, chunkInputs, sheetInputs, readCalls, aggressiveRegexCache,
                    regexCall, runs >>

NextCancel ==
    \/ Next
    \/ CancelInParams
    \/ CancelBeforeSend
    \/ CancelInRead
    \/ CancelInSummary
    \/ CancelledFinally

\* The event loop resumes the run step after the rejected send: its finally
\* block is run.
SpecCancel == Init /\ [][NextCancel]_vars /\ WF_vars(CancelledFinally)

\* ------------------------------------------------------------------------
\* Validation of one file whose rows vary cell by cell
\* ------------------------------------------------------------------------

\* One call of processProductChunk, on the set of catalog numbers the calls
\* before it left.
CallChunk ==
    /\ chunkInputs # <<>>
    /\ \E r \in { processProductChunk(Head(chunkInputs), ExpectedSupplier,
                                      AdditionalFieldNames(Fields), Fields,
                                      globalSupplierCatalogNumbers) } :
          /\ calls' = Append(calls, [chunk  |-> Head(chunkInputs),
                                     before |-> globalSupplierCatalogNumbers,
                                     result |-> r])
          /\ globalSupplierCatalogNumbers' = r.globalSet
    /\ chunkInputs' = Tail(chunkInputs)
    /\ UNCHANGED << pc, runNo, chunkSize, tempFile, request, fullPathRef, allProducts,
                    metadataHash, currentChunkIndex, allProcessingErrors, bluePrint,
                    bluePrintAtStart, saved, stream, closed, hashInputs, hashCalls, sheetInputs,
                    readCalls, aggressiveRegexCache, regexCall, runs >>

\* The chunks to validate for one row p: p alone, next to the valid row A1
\* (after or before it), in the chunk after or before the one of the valid
\* row A1, or after the valid row A1 in a chunk that follows the one of the
\* valid row A1.
ChunksOf(p, shape) ==
    CASE shape = 1 -> << << p >> >>
      [] shape = 2 -> << << GoodRow(A1), p >> >>
      [] shape = 3 -> << << p, GoodRow(A1) >> >>
      [] shape = 4 -> << << GoodRow(A1) >>, << p >> >>
      [] shape = 5 -> << << p >>, << GoodRow(A1) >> >>
      [] OTHER     -> << << GoodRow(A1) >>, << GoodRow(A1), p >> >>

\* The row differs from the valid row A1 in at most MaxVaried cells.
InitChunk ==
    /\ Quiet
    /\ NoReads
    /\ EmptyCache
    /\ NoRuns
    /\ chunkSize = MaxChunkSize
    /\ hashInputs = <<>>
    /\ hashCalls = <<>>
    /\ \E changes \in SeqsOf(CellChanges, 0, MaxVaried), shape \in 1..6 :
          chunkInputs = ChunksOf(WithCells(GoodRow(A1), changes), shape)

SpecChunk == InitChunk /\ [][CallChunk]_vars

\* ------------------------------------------------------------------------
\* Two products whose constant field lists the same tokens in another order
\* ------------------------------------------------------------------------

MaxTokens == 3

Tokens ==
    { <<"H","u","m","a","n">>, <<"h","u","m","a","n">>, <<"H","U","M","A","N">>,
      <<"m","o","u","s","e">>, <<"c","a","t">> }

\* ss with its i-th and j-th elements exchanged.
Swap(ss, i, j) == [ss EXCEPT ![i] = ss[j], ![j] = ss[i]]

\* A valid row whose species cell lists the tokens ts.
TokenRow(catalog, ts) == [GoodRow(catalog) EXCEPT !["species"] = Str(JoinComma(ts))]

\* Two valid rows whose species cells hold the same tokens, the second with
\* two of them exchanged, validated as one chunk.
InitTokens ==
    /\ Quiet
    /\ NoReads
    /\ EmptyCache
    /\ NoRuns
    /\ chunkSize = MaxChunkSize
    /\ hashInputs = <<>>
    /\ hashCalls = <<>>
    /\ \E ts \in SeqsOf(Tokens, 1, MaxTokens) :
          \E i \in 1..Len(ts), j \in 1..Len(ts) :
             chunkInputs = << << TokenRow(A1, ts), TokenRow(B2, Swap(ts, i, j)) >> >>

SpecTokens == InitTokens /\ [][CallChunk]_vars

\* ------------------------------------------------------------------------
\* Fingerprints of two product arrays of the same sheet
\* ------------------------------------------------------------------------

MaxHashProducts == 4

\* Rows that differ in the catalog number, or only in the type of one cell
\* (the string "7" and the number 7).
HashRows ==
    { GoodRow(A1), GoodRow(B2),
      [GoodRow(A1) EXCEPT !["price.buy.amount"] = Str(<<"7">>)],
      [GoodRow(A1) EXCEPT !["price.buy.amount"] = Num(7, 0)] }

\* One call of generateMetadataHash.
CallHash ==
    /\ hashInputs # <<>>
    /\ hashCalls' = Append(hashCalls,
           [metadata |-> Head(hashInputs).metadata,
            products |-> Head(hashInputs).products,
            hash     |-> generateMetadataHash(Head(hashInputs).metadata,
                                              Head(hashInputs).products)])
    /\ hashInputs' = Tail(hashInputs)
    /\ UNCHANGED << pc, runNo, chunkSize, tempFile, request, fullPathRef, allProducts,
                    metadataHash, currentChunkIndex, globalSupplierCatalogNumbers,
                    allProcessingErrors, calls, bluePrint, bluePrintAtStart, saved, stream,
                    closed, chunkInputs, sheetInputs,
                    readCalls, aggressiveRegexCache, regexCall, runs >>

\* Two calls to make: an array of rows, and the same array with one row
\* replaced, both with the metadata of the same sheet.
InitHash ==
    /\ Quiet
    /\ NoReads
    /\ EmptyCache
    /\ NoRuns
    /\ chunkSize = MaxChunkSize
    /\ hashCalls = <<>>
    /\ chunkInputs = <<>>
    /\ \E a \in SeqsOf(HashRows, 1, MaxHashProducts) :
          \E i \in 1..Len(a), r \in HashRows :
             hashInputs = << [metadata |-> SheetMetadata(a), products |-> a],
                             [metadata |-> SheetMetadata(a),
                              products |-> [a EXCEPT ![i] = r]] >>

SpecHash == InitHash /\ [][CallHash]_vars

\* ------------------------------------------------------------------------
\* Workbooks of several sheets, read on their own
\* ------------------------------------------------------------------------

MaxSheets == 3

SheetNames == << "S1", "S2", "S3", "S4" >>

\* A row whose cells hold the names of the columns.
HeaderAsRow == [k \in Keys |-> Str(<< k >>)]

\* A sheet whose first row has no cell, followed by the row of the column
\* names and one row of data.
LateHeaderSheet == Sheet("Late", TRUE, <<>>, << HeaderAsRow, GoodRow(A1) >>)

\* The sheets a workbook is made of: with a header row and no, one or two
\* rows of data, without any row, with a first row without cells.
SheetKinds ==
    { MainSheet(<<>>), MainSheet(<< GoodRow(A1) >>),
      MainSheet(<< GoodRow(A1), GoodRow(B2) >>), NoRowsSheet, BlankHeaderSheet,
      LateHeaderSheet }

\* The sheets of a workbook have names of their own.
Workbook(kinds) == [i \in 1..Len(kinds) |-> [kinds[i] EXCEPT !.sheetName = SheetNames[i]]]

\* The loop over the worksheets, on one workbook.
CallRead ==
    /\ sheetInputs # <<>>
    /\ \E r \in { ReadSheets(Head(sheetInputs), [metadata |-> <<>>, allProducts |-> <<>>,
                                                  errors |-> <<>>, messages |-> <<>>],
                             chunkSize) } :
          readCalls' = Append(readCalls, [sheets |-> Head(sheetInputs), result |-> r])
    /\ sheetInputs' = Tail(sheetInputs)
    /\ UNCHANGED << pc, runNo, chunkSize, tempFile, request, fullPathRef, allProducts,
                    metadataHash, currentChunkIndex, globalSupplierCatalogNumbers,
                    allProcessingErrors, calls, bluePrint, bluePrintAtStart, saved, stream,
                    closed, hashInputs, hashCalls, chunkInputs, aggressiveRegexCache,
                    regexCall, runs >>

InitSheets ==
    /\ Quiet
    /\ EmptyCache
    /\ NoRuns
    /\ chunkSize \in 1..MaxChunkSize
    /\ hashInputs = <<>>
    /\ hashCalls = <<>>
    /\ chunkInputs = <<>>
    /\ readCalls = <<>>
    /\ \E kinds \in SeqsOf(SheetKinds, 1, MaxSheets) : sheetInputs = << Workbook(kinds) >>

SpecSheets == InitSheets /\ [][CallRead]_vars

\* ------------------------------------------------------------------------
\* The cache of createAggressiveRegex
\* ------------------------------------------------------------------------

\* MAX_CACHE_SIZE (1000 in the source).
MAX_CACHE_SIZE == 2

\* The labels createAggressiveRegex is called with.
Labels ==
    { <<"H","u","m","a","n">>, <<"H","o","m","o">>, <<"M","o","u","s","e">>,
      <<"c","a","t">>, <<"r","a","t">>, <<"a",".","b">> }

\* aggressiveRegexCache.has(input)
CacheHas(cache, input) == \E entry \in cache : entry.key = input

\* aggressiveRegexCache.get(input)
CacheGet(cache, input) == (CHOOSE entry \in cache : entry.key = input).value

\* aggressiveRegexCache.set(input, value) for a key the Map does not hold.
CacheSet(cache, input, value) == cache \cup { [key |-> input, value |-> value] }

\* A variant of CacheAfter that never clears the Map, against which C19 fails.
CacheAfterNoClear(cache, input) ==
    IF CacheHas(cache, input) THEN cache
    ELSE CacheSet(cache, input, createAggressiveRegex(input))

\* The Map as a call of createAggressiveRegex leaves it.
CacheAfter(cache, input) ==
    IF CacheHas(cache, input) THEN cache
    ELSE CacheSet(IF Cardinality(cache) > MAX_CACHE_SIZE THEN {} ELSE cache,
                  input, createAggressiveRegex(input))

\* One call of createAggressiveRegex, from any run: the function has no
\* suspension point, so calls follow one another.
CallRegex ==
    /\ \E input \in Labels :
          /\ aggressiveRegexCache' = CacheAfter(aggressiveRegexCache, input)
          /\ regexCall' = [input  |-> input,
                           hit    |-> CacheHas(aggressiveRegexCache, input),
                           before |-> Cardinality(aggressiveRegexCache),
                           result |-> CacheGet(aggressiveRegexCache', input)]
    /\ UNCHANGED << pc, runNo, chunkSize, tempFile, request, fullPathRef, allProducts,
                    metadataHash, currentChunkIndex, globalSupplierCatalogNumbers,
                    allProcessingErrors, calls, bluePrint, bluePrintAtStart, saved, stream,
                    closed, hashInputs, hashCalls, chunkInputs, sheetInputs, readCalls,
                    runs >>

InitCache ==
    /\ Quiet
    /\ NoReads
    /\ EmptyCache
    /\ NoRuns
    /\ chunkSize = MaxChunkSize
    /\ hashInputs = <<>>
    /\ hashCalls = <<>>
    /\ chunkInputs = <<>>

SpecCache == InitCache /\ [][CallRegex]_vars

\* ------------------------------------------------------------------------
\* Two run steps in flight together
\* ------------------------------------------------------------------------

\* The requests served at the same time.
RunIds == { "a", "b" }

\* The rows of their files: two valid rows with different catalog numbers.
ConcurrentRows == { GoodRow(A1), GoodRow(B2) }

\* The locals of a run step that has not read its file yet.
NewRun ==
    [pc |-> "read", allProducts |-> <<>>, currentChunkIndex |-> 0,
     globalSupplierCatalogNumbers |-> {}, allProcessingErrors |-> <<>>]

\* A variant of RunGlobalSet in which the set of catalog numbers is one for
\* the module, shared by the runs, against which C20 fails.
SharedGlobalSet(rs, r) == UNION { rs[q].globalSupplierCatalogNumbers : q \in DOMAIN rs }

\* The set handed to processProductChunk by run r: the one it created.
RunGlobalSet(rs, r) == rs[r].globalSupplierCatalogNumbers

\* Run r reads its file: its rows are its own, so are the new Set and the new
\* array of errors.  The suspension points of the reading touch nothing that
\* the runs share.
ReadRun(r) ==
    /\ runs[r].pc = "read"
    /\ \E rows \in SeqsOf(ConcurrentRows, 1, MaxProducts) :
          runs' = [runs EXCEPT ![r] = [pc |-> "validate", allProducts |-> rows,
                                       currentChunkIndex |-> 0,
                                       globalSupplierCatalogNumbers |-> {},
                                       allProcessingErrors |-> <<>>]]
    /\ UNCHANGED << pc, runNo, chunkSize, tempFile, request, fullPathRef, allProducts,
                    metadataHash, currentChunkIndex, globalSupplierCatalogNumbers,
                    allProcessingErrors, calls, bluePrint, bluePrintAtStart, saved, stream,
                    closed, hashInputs, hashCalls, chunkInputs, sheetInputs, readCalls,
                    aggressiveRegexCache, regexCall >>

\* One turn of the loop over the chunks of run r, from the send that opens it
\* to the send that opens the next.
ValidateRun(r) ==
    /\ runs[r].pc = "validate"
    /\ \E chunks \in { splitIntoChunks(runs[r].allProducts, chunkSize) } :
       \E res \in { processProductChunk(chunks[runs[r].currentChunkIndex + 1],
                                        ExpectedSupplier, AdditionalFieldNames(Fields),
                                        Fields, RunGlobalSet(runs, r)) } :
          runs' = [runs EXCEPT ![r] =
                     [pc |-> IF runs[r].currentChunkIndex + 1 = Len(chunks)
                             THEN "summary" ELSE "validate",
                      allProducts |-> runs[r].allProducts,
                      currentChunkIndex |-> runs[r].currentChunkIndex + 1,
                      globalSupplierCatalogNumbers |-> res.globalSet,
                      allProcessingErrors |-> runs[r].allProcessingErrors \o res.errors]]
    /\ UNCHANGED << pc, runNo, chunkSize, tempFile, request, fullPathRef, allProducts,
                    metadataHash, currentChunkIndex, globalSupplierCatalogNumbers,
                    allProcessingErrors, calls, bluePrint, bluePrintAtStart, saved, stream,
                    closed, hashInputs, hashCalls, chunkInputs, sheetInputs, readCalls,
                    aggressiveRegexCache, regexCall >>

InitConcurrent ==
    /\ Quiet
    /\ NoReads
    /\ EmptyCache
    /\ chunkSize \in 1..MaxChunkSize
    /\ hashInputs = <<>>
    /\ hashCalls = <<>>
    /\ chunkInputs = <<>>
    /\ runs = [r \in RunIds |-> NewRun]

NextConcurrent == \E r \in RunIds : ReadRun(r) \/ ValidateRun(r)

SpecConcurrent == InitConcurrent /\ [][NextConcurrent]_vars

\* ------------------------------------------------------------------------
\* Properties
\* ------------------------------------------------------------------------

\* The diagnostics of es for which Keep holds.
Count(es, Keep(_)) == Len(SelectSeq(es, Keep))

\* The catalog_number cell holds a string that is not blank.
HasCatalog(product) ==
    /\ product["catalog_number"].t = "str"
    /\ \E i \in 1..Len(product["catalog_number"].s) : ~IsSpace(product["catalog_number"].s[i])

\* The catalog_number cell is absent, null or a blank string.
BlankCatalog(product) ==
    \/ product["catalog_number"].t \in {"undef", "null"}
    \/ /\ product["catalog_number"].t = "str"
       /\ \A i \in 1..Len(product["catalog_number"].s) : IsSpace(product["catalog_number"].s[i])

\* The positions <<call, index>> of the products validated so far.
Positions == UNION { { <<n, i>> : i \in 1..Len(calls[n].chunk) } : n \in 1..Len(calls) }

\* The product as read, its diagnostics, the product as the checks left it.
RowAt(pos) == calls[pos[1]].chunk[pos[2]]

DiagnosticsAt(pos) == calls[pos[1]].result.specific[pos[2]]

ProductAt(pos) == calls[pos[1]].result.products[pos[2]]

\* The catalog strings of the rows of a chunk that have one.
CatalogsOf(chunk) ==
    { chunk[i]["catalog_number"].s : i \in { j \in 1..Len(chunk) : HasCatalog(chunk[j]) } }

\* The diagnostics of a product about one field.
OnField(es, field) == SelectSeq(es, LAMBDA e : e.field = field)

\* C1: a product whose catalog_number is missing or blank gets exactly one
\* diagnostic (missing_field, error, MISSING_OR_INVALID_CATALOG_NUMBER), no
\* other check touches it (the product is left as read), no blank catalog
\* number enters the chunk-local or the global duplicate set (both hold just
\* the catalog numbers of the other rows), and no such product is in the
\* valid output.
C1_MissingCatalogNumber ==
    \A pos \in Positions :
       BlankCatalog(RowAt(pos)) =>
          /\ Len(DiagnosticsAt(pos)) = 1
          /\ DiagnosticsAt(pos)[1].type = "missing_field"
          /\ DiagnosticsAt(pos)[1].severity = "error"
          /\ DiagnosticsAt(pos)[1].code = "MISSING_OR_INVALID_CATALOG_NUMBER"
          /\ ProductAt(pos) = RowAt(pos)
          /\ calls[pos[1]].result.chunkSet = CatalogsOf(calls[pos[1]].chunk)
          /\ calls[pos[1]].result.globalSet
                = calls[pos[1]].before \cup CatalogsOf(calls[pos[1]].chunk)
          /\ \A v \in Range(calls[pos[1]].result.finalValidData) : HasCatalog(v.product)

\* A chunk of two rows was validated: one with a blank catalog_number, one valid.
C1_Witness ==
    \E pos \in Positions :
       /\ BlankCatalog(RowAt(pos))
       /\ RowAt(pos)["catalog_number"].t = "str"
       /\ Len(RowAt(pos)["catalog_number"].s) > 0
       /\ Len(calls[pos[1]].chunk) = 2
       /\ Len(calls[pos[1]].result.finalValidData) = 1

\* The occurrences of the catalog number of pos that were validated before it.
EarlierOccurrences(pos) ==
    { q \in Positions :
        /\ q[1] < pos[1] \/ (q[1] = pos[1] /\ q[2] < pos[2])
        /\ HasCatalog(RowAt(q))
        /\ RowAt(q)["catalog_number"] = RowAt(pos)["catalog_number"] }

IsDuplicationOf(e, catalogNumber) ==
    e.type = "duplication" /\ e.severity = "error" /\ e.catalogNumber = catalogNumber

\* C2: within a run, whatever the chunk size, a product whose catalog number
\* was seen before (in its chunk or an earlier one) gets exactly one
\* duplication error, which names that catalog number, and the first
\* occurrence gets none; the chunk of two valid rows 'A1','A1' gives one
\* valid product and one duplication error.
C2_LaterOccurrencesFlagged ==
    /\ \A pos \in Positions :
          HasCatalog(RowAt(pos)) =>
             /\ Count(DiagnosticsAt(pos), LAMBDA e : e.type = "duplication")
                   = IF EarlierOccurrences(pos) = {} THEN 0 ELSE 1
             /\ \A e \in Range(DiagnosticsAt(pos)) :
                   e.type = "duplication" =>
                      IsDuplicationOf(e, RowAt(pos)["catalog_number"])
    /\ \A n \in 1..Len(calls) :
          (n = 1 /\ calls[n].chunk = << GoodRow(A1), GoodRow(A1) >>) =>
             /\ Len(calls[n].result.finalValidData) = 1
             /\ Count(calls[n].result.errors, LAMBDA e : IsDuplicationOf(e, Str(A1))) = 1
             /\ Len(calls[n].result.errors) = 1

\* A catalog number came back in a later chunk of the run and was flagged there.
C2_Witness ==
    \E pos \in Positions :
       /\ pos[1] > 1
       /\ \E q \in EarlierOccurrences(pos) : q[1] < pos[1]
       /\ \E e \in Range(DiagnosticsAt(pos)) : e.code = "GLOBAL_DUPLICATE_CATALOG_NUMBER"

\* The word a cell holds, lower-cased and trimmed.
WordOf(v) == toLowerCase(trim(v.s))

\* C3, as the specification states it: for each boolean field, 'true', 'yes',
\* 'vrai' (any case, surrounding blanks ignored) raise nothing and become
\* true; 'false', 'no', 'faux' raise nothing and become false; a blank value
\* raises missing_field; any other non-blank string raises invalid_value.
C3_BooleanWordsAccepted ==
    \A pos \in Positions :
       HasCatalog(RowAt(pos)) =>
          \A i \in 1..Len(booleanFields) :
             LET field == booleanFields[i]
                 v     == RowAt(pos)[field]
                 diags == OnField(DiagnosticsAt(pos), field)
             IN  /\ (v.t = "str" /\ WordOf(v) \in TrueWords) =>
                       diags = <<>> /\ ProductAt(pos)[field] = Bool(TRUE)
                 /\ (v.t = "str" /\ WordOf(v) \in FalseWords) =>
                       diags = <<>> /\ ProductAt(pos)[field] = Bool(FALSE)
                 /\ (v.t = "str" /\ WordOf(v) = <<>>) =>
                       \E e \in Range(diags) : e.type = "missing_field"
                 /\ (v.t = "str" /\ WordOf(v) \notin TrueWords \cup FalseWords \cup {<<>>}) =>
                       \E e \in Range(diags) : e.type = "invalid_value"

\* The currency cell in upper case, trimmed.
CurrencyForm(v) == trim(toUpperCase(String(v)))

IsCurrencyError(e) == e.type = "invalid_value" /\ e.field = "price.buy.currency"

\* C4: for a product with a catalog number (a string that is not blank), the
\* currency is accepted iff its upper-cased, trimmed form is EUR, USD, GBP,
\* PLN or JPY; accepted, the field holds that code afterwards and no
\* diagnostic names the field; otherwise exactly one invalid_value error names
\* it and the field is left as read.
C4_CurrencyWhitelist ==
    \A pos \in Positions :
       HasCatalog(RowAt(pos)) =>
          LET v == RowAt(pos)["price.buy.currency"]
          IN  IF CurrencyForm(v) \in validCurrencies
              THEN /\ OnField(DiagnosticsAt(pos), "price.buy.currency") = <<>>
                   /\ ProductAt(pos)["price.buy.currency"] = Str(CurrencyForm(v))
              ELSE /\ Count(DiagnosticsAt(pos), IsCurrencyError) = 1
                   /\ \A e \in Range(DiagnosticsAt(pos)) :
                         IsCurrencyError(e) => e.severity = "error" /\ e.code = "INVALID_CURRENCY"
                   /\ ProductAt(pos)["price.buy.currency"] = v

\* The currency cell " Eur " was validated and now holds "EUR".
C4_Witness ==
    \E pos \in Positions :
       /\ HasCatalog(RowAt(pos))
       /\ RowAt(pos)["price.buy.currency"] = Str(<<" ","E","u","r"," ">>)
       /\ ProductAt(pos)["price.buy.currency"] = Str(<<"E","U","R">>)

\* The amount a cell denotes once a decimal comma is a decimal point: the
\* whole text must be a decimal number (NaN when it is not).
AmountOf(v) == Number(Str(ReplaceFirstComma(String(v))))

AmountFields == << "price.buy.amount", "price.promotion_price.amount" >>

\* C5, as the specification states it: for the buy amount and the promotion
\* amount when it is not blank, a value that is a non-negative number once
\* its decimal comma is a decimal point raises no diagnostic on the field and
\* is replaced by that number; an empty buy amount raises missing_field; a
\* value that is not a number, or is negative, raises invalid_value and stays
\* as read.
C5_AmountsAreNumbers ==
    \A pos \in Positions :
       HasCatalog(RowAt(pos)) =>
          \A i \in 1..Len(AmountFields) :
             LET field == AmountFields[i]
                 v     == RowAt(pos)[field]
                 diags == OnField(DiagnosticsAt(pos), field)
             IN  IF IsBlankValue(v)
                 THEN field = "price.buy.amount" =>
                         \E e \in Range(diags) : e.type = "missing_field"
                 ELSE IF AmountOf(v) # NaN /\ ~IsNegative(AmountOf(v))
                 THEN diags = <<>> /\ ProductAt(pos)[field] = AmountOf(v)
                 ELSE /\ \E e \in Range(diags) : e.type = "invalid_value"
                      /\ ProductAt(pos)[field] = v

IsSupplierError(e) == e.code = "INVALID_SUPPLIER_ID"

\* C6: for a product with a catalog number (a string that is not blank) whose
\* supplier id, as a number, is not the expected one or is no number, exactly
\* one diagnostic has code INVALID_SUPPLIER_ID (an invalid_value error on
\* supplier.id) and the product is not in the valid output, where every
\* product has the expected supplier id; when the ids are equal no diagnostic
\* has that code.
C6_SupplierMismatch ==
    \A pos \in Positions :
       HasCatalog(RowAt(pos)) =>
          /\ IF Number(RowAt(pos)["supplier.id"]) = ExpectedSupplier
             THEN Count(DiagnosticsAt(pos), IsSupplierError) = 0
             ELSE /\ Count(DiagnosticsAt(pos), IsSupplierError) = 1
                  /\ \A e \in Range(DiagnosticsAt(pos)) :
                        IsSupplierError(e) =>
                           /\ e.type = "invalid_value"
                           /\ e.severity = "error"
                           /\ e.field = "supplier.id"
                  /\ Len(calls[pos[1]].result.finalValidData)
                        <= Cardinality({ q \in Positions :
                                            q[1] = pos[1] /\ DiagnosticsAt(q) = <<>> })
          /\ \A v \in Range(calls[pos[1]].result.finalValidData) :
                Number(v.product["supplier.id"]) = ExpectedSupplier

\* A row that is valid but for its supplier id "7" was validated alone: one
\* diagnostic, nothing valid.
C6_Witness ==
    \E pos \in Positions :
       /\ RowAt(pos) = [GoodRow(A1) EXCEPT !["supplier.id"] = Str(<<"7">>)]
       /\ Len(calls[pos[1]].chunk) = 1
       /\ Len(DiagnosticsAt(pos)) = 1
       /\ calls[pos[1]].result.finalValidData = <<>>

\* The tokens of a cell: split at commas, trimmed, the empty ones dropped.
TokensOf(v) == FilterNonEmpty(MapTrim(SplitComma(trim(v.s))))

\* C7: for the constant field species, two products whose cells list the same
\* tokens in whatever order end with the same set of canonical names, and the
\* array written to the field holds no name twice.
C7_MatchedNamesAreASet ==
    \A pos \in Positions, q \in Positions :
       ( /\ HasCatalog(RowAt(pos)) /\ HasCatalog(RowAt(q))
         /\ RowAt(pos)["species"].t = "str" /\ RowAt(q)["species"].t = "str"
         /\ Range(TokensOf(RowAt(pos)["species"])) = Range(TokensOf(RowAt(q)["species"]))
         /\ Range(TokensOf(RowAt(pos)["species"])) # {} )
       => /\ ProductAt(pos)["species"].t = "arr"
          /\ ProductAt(q)["species"].t = "arr"
          /\ Range(ProductAt(pos)["species"].a) = Range(ProductAt(q)["species"].a)
          /\ Cardinality(Range(ProductAt(pos)["species"].a)) = Len(ProductAt(pos)["species"].a)

\* Two cells list the same three tokens in different orders, two of the
\* tokens match the same name, and the arrays written hold the same two names
\* in different orders.
C7_Witness ==
    \E pos \in Positions, q \in Positions :
       /\ RowAt(pos)["species"].t = "str" /\ RowAt(q)["species"].t = "str"
       /\ Len(TokensOf(RowAt(pos)["species"])) = 3
       /\ Range(TokensOf(RowAt(pos)["species"])) = Range(TokensOf(RowAt(q)["species"]))
       /\ ProductAt(pos)["species"].t = "arr" /\ ProductAt(q)["species"].t = "arr"
       /\ Len(ProductAt(pos)["species"].a) = 2
       /\ ProductAt(pos)["species"].a # ProductAt(q)["species"].a

\* The 1-based positions generateMetadataHash samples in an array of n
\* products: the first, the last, and the one after the first half when n > 2.
SampledPositions(n) == {1, n} \cup (IF n > 2 THEN {(n \div 2) + 1} ELSE {})

\* C8: two calls with the same metadata and the same products return the same
\* fingerprint; two calls with the same metadata and as many products return
\* different fingerprints as soon as a sampled product differs in some field.
C8_FingerprintOfSamples ==
    \A x \in 1..Len(hashCalls), y \in 1..Len(hashCalls) :
       LET a == hashCalls[x]
           b == hashCalls[y]
       IN  /\ (a.metadata = b.metadata /\ a.products = b.products) => a.hash = b.hash
           /\ ( /\ a.metadata = b.metadata
                /\ Len(a.products) = Len(b.products)
                /\ \E i \in SampledPositions(Len(a.products)) : a.products[i] # b.products[i] )
              => a.hash # b.hash

\* Two arrays of three products that differ only in the type of one cell of
\* their last product were fingerprinted.
C8_Witness ==
    /\ Len(hashCalls) = 2
    /\ Len(hashCalls[1].products) = 3
    /\ hashCalls[1].products[1] = hashCalls[2].products[1]
    /\ hashCalls[1].products[2] = hashCalls[2].products[2]
    /\ hashCalls[1].products[3]["price.buy.amount"] = Str(<<"7">>)
    /\ hashCalls[2].products[3]["price.buy.amount"] = Num(7, 0)
    /\ hashCalls[1].hash # hashCalls[2].hash

\* Every chunk was validated and no validation or duplication error was raised.
CleanRun ==
    /\ Len(allProducts) > 0
    /\ currentChunkIndex = Len(splitIntoChunks(allProducts, chunkSize))
    /\ \A e \in Range(allProcessingErrors) : ~IsValidationError(e) /\ ~IsDuplicationError(e)

SaveFailed == \E k \in 1..Len(stream) : stream[k].code = "BLUEPRINT_SAVE_FAILED"

C10_KnownFileNotRevalidated ==
    metadataHash \in Range(bluePrintAtStart.files) => calls = <<>>

\* The concatenation of a sequence of sequences.
RECURSIVE Concat(_)
Concat(seqs) == IF seqs = <<>> THEN <<>> ELSE Head(seqs) \o Concat(Tail(seqs))

\* The diagnostics of the run row by row, in the order the rows were read and
\* validated: one sequence of diagnostics for each row.
RowDiagnostics == Concat([n \in 1..Len(calls) |-> calls[n].result.specific])

\* The line of details that carries a diagnostic in the stream.
LineOf(e) == IF IsDuplicationError(e) THEN DuplicationLine(e) ELSE DetailLine(e)

\* The lines of details about rows that the stream carries, in stream order.
StreamLines ==
    SelectSeq(Concat([k \in 1..Len(stream) |-> stream[k].details]),
              LAMBDA line : line.code # "NO_SHEET_HEADERS")

\* a and b hold the same elements, each as many times.
SameElements(a, b) ==
    /\ Len(a) = Len(b)
    /\ \A x \in Range(a) \cup Range(b) :
          Cardinality({ i \in 1..Len(a) : a[i] = x })
             = Cardinality({ i \in 1..Len(b) : b[i] = x })

\* lines is made of one block for each row, in the order of the rows, and the
\* block of a row holds the lines of the diagnostics of that row.
RECURSIVE InRowOrder(_, _)
InRowOrder(lines, rows) ==
    IF rows = <<>> THEN lines = <<>>
    ELSE /\ Len(lines) >= Len(Head(rows))
         /\ SameElements(SubSeq(lines, 1, Len(Head(rows))),
                         [i \in 1..Len(Head(rows)) |-> LineOf(Head(rows)[i])])
         /\ InRowOrder(SubSeq(lines, Len(Head(rows)) + 1, Len(lines)), Tail(rows))

SummarySent == \E k \in 1..Len(stream) : stream[k].type = "summary_report"

\* C11, as the specification states it: once the summary is sent the stream
\* carries every diagnostic of every row, and the diagnostics of a row read
\* earlier come before those of a row read later, whatever their types.
C11_DiagnosticsInRowOrder == SummarySent => InRowOrder(StreamLines, RowDiagnostics)

\* What does hold of C11: no diagnostic of a row is dropped.  The stream
\* carries the lines of all the diagnostics of the run, each as many times.
C11_NoDiagnosticDropped ==
    SummarySent =>
       SameElements(StreamLines,
                    [i \in 1..Len(Concat(RowDiagnostics)) |-> LineOf(Concat(RowDiagnostics)[i])])

\* A message that reports a fatal error.
IsFatal(m) ==
    /\ m.severity = "error"
    /\ m.type \in {"file_error", "system_error", "permission_denied"}

FatalSent == \E k \in 1..Len(stream) : IsFatal(stream[k])

\* The stream carries a summary_report and, right after it, a success message.
SummaryThenSuccess ==
    \E k \in 1..(Len(stream) - 1) :
       stream[k].type = "summary_report" /\ stream[k + 1].type = "success"

\* The stream carries NO_PRODUCTS_FOUND and, right after it, a success message.
NoProductsThenSuccess ==
    \E k \in 1..(Len(stream) - 1) :
       stream[k].code = "NO_PRODUCTS_FOUND" /\ stream[k + 1].type = "success"

\* C12, as the specification states it: the stream is closed only after it
\* has carried a summary_report followed by a success message, or a fatal
\* error message.
C12_SummaryOrFatalBeforeClose == closed => SummaryThenSuccess \/ FatalSent

\* C12, corrected: the stream is closed only after it has carried a
\* summary_report followed by a success message, or a fatal error message,
\* or, for a file without products, the information NO_PRODUCTS_FOUND
\* followed by a success message; it is closed by the end of every run.
C12_TerminalMessageBeforeClose ==
    /\ closed => SummaryThenSuccess \/ FatalSent \/ NoProductsThenSuccess
    /\ pc = "done" => closed
    /\ closed => pc = "done"

\* A run of a file without products, closed after NO_PRODUCTS_FOUND and a
\* success message, with no summary and no fatal error.
C12_Witness ==
    /\ closed
    /\ NoProductsThenSuccess
    /\ ~SummarySent
    /\ ~FatalSent

CleanupFailed == \E k \in 1..Len(stream) : stream[k].code = "TEMP_FILE_CLEANUP_FAILED"

\* C13, as the specification states it: when the stream of a run is closed
\* and the deletion of the temporary file that the request names did not
\* fail, that file no longer exists, whatever way the run ended.
C13_TempFileRemoved ==
    closed /\ request.filePath /\ ~CleanupFailed => ~tempFile.exists

InValidOutput(pos) ==
    \E i \in 1..Len(calls[pos[1]].result.finalValidData) :
       calls[pos[1]].result.finalValidData[i] = Validated(ProductAt(pos))

HasErrorDiagnostic(pos) ==
    \E i \in 1..Len(DiagnosticsAt(pos)) : DiagnosticsAt(pos)[i].severity = "error"

\* C15, as the specification states it: every unrecognized_field diagnostic
\* is a warning, and a product is left out of the valid output only when it
\* has a diagnostic of severity error; a product whose diagnostics are all
\* unrecognized_field warnings is in the valid output, marked validated.
C15_WarningsAreNotFatal ==
    \A pos \in Positions :
       /\ \A i \in 1..Len(DiagnosticsAt(pos)) :
             DiagnosticsAt(pos)[i].type = "unrecognized_field"
                => DiagnosticsAt(pos)[i].severity = "warning"
       /\ ~HasErrorDiagnostic(pos) => InValidOutput(pos)

\* The products of the run that have no diagnostic of severity error.
ProductsWithoutError == { pos \in Positions : ~HasErrorDiagnostic(pos) }

\* C16, as the specification states it: in the summary_report totalProducts
\* is the number of products read, errors, duplications and warnings are the
\* numbers of validation, duplication and warning diagnostics, validProducts
\* is the number of products with no error, and 0 <= validProducts <=
\* totalProducts.
C16_SummaryCounts ==
    \A k \in 1..Len(stream) :
       stream[k].type = "summary_report" =>
          /\ stream[k].report.totalProducts = Len(allProducts)
          /\ stream[k].report.errors = Count(allProcessingErrors, IsValidationError)
          /\ stream[k].report.duplications = Count(allProcessingErrors, IsDuplicationError)
          /\ stream[k].report.warnings = Count(allProcessingErrors, IsWarning)
          /\ stream[k].report.validProducts = Cardinality(ProductsWithoutError)
          /\ stream[k].report.validProducts >= 0
          /\ stream[k].report.validProducts <= stream[k].report.totalProducts

\* The place in the stream of the report of the missing field definitions
\* (0 when there is none).
MetadataNotFoundAt ==
    IF \E k \in 1..Len(stream) : stream[k].code = "METADATA_NOT_FOUND"
    THEN CHOOSE k \in 1..Len(stream) : stream[k].code = "METADATA_NOT_FOUND"
    ELSE 0

\* A message of the cleanup step.
IsCleanupMessage(m) ==
    \/ m.code = "TEMP_FILE_CLEANUP_FAILED"
    \/ m.message = "Temporary file cleaned up successfully."

\* C17: once the run has reported that the field-definition document is
\* missing (a system_error of severity error), it has read no row of the
\* file, validated no chunk, raised no diagnostic, sent no summary_report and
\* left the store as it found it; nothing follows that report in the stream
\* but the messages of the cleanup, and the run ends with its stream closed.
C17_NoSchemaNoProcessing ==
    MetadataNotFoundAt # 0 =>
       /\ stream[MetadataNotFoundAt].type = "system_error"
       /\ stream[MetadataNotFoundAt].severity = "error"
       /\ tempFile.sheets = <<>>
       /\ allProducts = <<>>
       /\ calls = <<>>
       /\ currentChunkIndex = 0
       /\ allProcessingErrors = <<>>
       /\ ~SummarySent
       /\ saved = 0
       /\ bluePrint = bluePrintAtStart
       /\ \A k \in (MetadataNotFoundAt + 1)..Len(stream) : IsCleanupMessage(stream[k])
       /\ pc \in {"finally", "done"}
       /\ pc = "done" => closed
       /\ pc = "finally" => ~closed /\ Len(stream) = MetadataNotFoundAt

\* A run that found no field definitions, closed after the cleanup removed
\* its file.
C17_Witness ==
    /\ MetadataNotFoundAt # 0
    /\ pc = "done"
    /\ closed
    /\ tempFile.unlink = "done"

\* The sheet has no header row with a cell in it: it yields no row at all, or
\* its first row has no cell.
NoHeaderRow(sheet) == ~sheet.first.present \/ Len(sheet.first.cells) = 0

\* The rows of data of the sheets that have a header row, sheet after sheet.
RowsUnderHeaders(sheets) ==
    Concat([i \in 1..Len(sheets) |->
               IF NoHeaderRow(sheets[i]) THEN <<>> ELSE sheets[i].data])

\* The NO_SHEET_HEADERS warnings on errors that name the sheet.
HeaderWarnings(errors, sheetName) ==
    { i \in 1..Len(errors) :
         /\ errors[i].code = "NO_SHEET_HEADERS"
         /\ errors[i].type = "file_error"
         /\ errors[i].severity = "warning"
         /\ errors[i].sheetName = sheetName }

\* C18, as the specification states it: every sheet without a header row,
\* the sheet that yields no row included, gets one file_error of severity
\* warning that names it, which is sent; it contributes no product (the
\* products read are the rows of the other sheets, in order), and the sheets
\* after it are read.
C18_SheetsWithoutHeader ==
    \A n \in 1..Len(readCalls) :
       /\ \A i \in 1..Len(readCalls[n].sheets) :
             NoHeaderRow(readCalls[n].sheets[i]) =>
                /\ Cardinality(HeaderWarnings(readCalls[n].result.errors,
                                              readCalls[n].sheets[i].sheetName)) = 1
                /\ \E k \in 1..Len(readCalls[n].result.messages) :
                      /\ readCalls[n].result.messages[k].code = "NO_SHEET_HEADERS"
                      /\ readCalls[n].result.messages[k].sheetName
                            = readCalls[n].sheets[i].sheetName
       /\ readCalls[n].result.allProducts = RowsUnderHeaders(readCalls[n].sheets)
       /\ Len(readCalls[n].result.metadata) = Len(readCalls[n].sheets)

\* Every call returns the pattern built from its own input, and every entry
\* of the Map holds the pattern built from its key, one entry for each key.
PatternsOfOwnLabel ==
    /\ regexCall # NoRegexCall =>
          /\ regexCall.result = createAggressiveRegex(regexCall.input)
          /\ CacheHas(aggressiveRegexCache, regexCall.input)
    /\ \A entry \in aggressiveRegexCache : entry.value = createAggressiveRegex(entry.key)
    /\ \A a \in aggressiveRegexCache : \A b \in aggressiveRegexCache : a.key = b.key => a = b

\* C19, as the specification states it: the Map never holds more than
\* MAX_CACHE_SIZE entries, and every call, hit or miss, returns the pattern
\* built from its own input.
C19_CacheWithinCeiling ==
    /\ Cardinality(aggressiveRegexCache) <= MAX_CACHE_SIZE
    /\ PatternsOfOwnLabel

\* C19, corrected: the Map never holds more than MAX_CACHE_SIZE + 1 entries
\* (it is cleared by the first miss that finds more than MAX_CACHE_SIZE of
\* them, and then holds the new entry alone), and every call, hit or miss,
\* returns the pattern built from its own input.
C19_CacheWithinCeilingPlusOne ==
    /\ Cardinality(aggressiveRegexCache) <= MAX_CACHE_SIZE + 1
    /\ PatternsOfOwnLabel
    /\ regexCall # NoRegexCall /\ ~regexCall.hit /\ regexCall.before > MAX_CACHE_SIZE
          => aggressiveRegexCache
                = { [key |-> regexCall.input, value |-> regexCall.result] }
    /\ regexCall.hit => Cardinality(aggressiveRegexCache) = regexCall.before

\* A miss that found MAX_CACHE_SIZE + 1 entries: the Map was cleared and
\* holds the new entry alone.
C19_Witness ==
    /\ ~regexCall.hit
    /\ regexCall.before = MAX_CACHE_SIZE + 1
    /\ Cardinality(aggressiveRegexCache) = 1

\* What a run alone leaves after the first k chunks of products: [errors,
\* globalSet], from an empty set.
RECURSIVE ValidatedAlone(_, _, _)
ValidatedAlone(chunks, k, acc) ==
    IF k = 0 THEN acc
    ELSE Bind(ValidatedAlone(chunks, k - 1, acc), LAMBDA before :
         Bind(processProductChunk(chunks[k], ExpectedSupplier, AdditionalFieldNames(Fields),
                                  Fields, before.globalSet),
              LAMBDA res : [errors    |-> before.errors \o res.errors,
                            globalSet |-> res.globalSet]))

\* The catalog numbers of the rows run r has validated so far, and how many
\* of these rows hold the catalog number c.
RowsValidated(r) ==
    SubSeq(runs[r].allProducts, 1,
           Min2(Len(runs[r].allProducts), runs[r].currentChunkIndex * chunkSize))

OccurrencesIn(rows, c) ==
    Cardinality({ i \in 1..Len(rows) : rows[i]["catalog_number"] = c })

\* C20: the duplicate set of a run starts empty and holds the catalog numbers
\* of the rows of that run only; a duplication error of a run is about a
\* catalog number that two rows of that run hold; and the diagnostics and the
\* set of each run are the ones it would have if it ran alone, however the
\* turns of the two runs are interleaved.
C20_DuplicateScopeIsOneRun ==
    \A r \in RunIds :
       /\ runs[r].currentChunkIndex = 0 => runs[r].globalSupplierCatalogNumbers = {}
       /\ runs[r].globalSupplierCatalogNumbers = CatalogsOf(RowsValidated(r))
       /\ \A i \in 1..Len(runs[r].allProcessingErrors) :
             IsDuplicationError(runs[r].allProcessingErrors[i])
                => OccurrencesIn(RowsValidated(r),
                                 runs[r].allProcessingErrors[i].catalogNumber) >= 2
       /\ \E alone \in { ValidatedAlone(splitIntoChunks(runs[r].allProducts, chunkSize),
                                        runs[r].currentChunkIndex,
                                        [errors |-> <<>>, globalSet |-> {}]) } :
             /\ runs[r].allProcessingErrors = alone.errors
             /\ runs[r].globalSupplierCatalogNumbers = alone.globalSet

\* Both runs hold the catalog number A1, one of them validated it while the
\* other was between two chunks, and neither has a diagnostic.
C20_Witness ==
    /\ \A r \in RunIds : A1 \in runs[r].globalSupplierCatalogNumbers
    /\ \A r \in RunIds : runs[r].allProcessingErrors = <<>>
    /\ \E r \in RunIds : runs[r].pc = "validate" /\ runs[r].currentChunkIndex = 1

\* The set of catalog numbers as the loop of call n leaves it after the first
\* k products of the chunk.
GlobalSetAfter(n, k) ==
    processProductChunk(SubSeq(calls[n].chunk, 1, k), ExpectedSupplier,
                        AdditionalFieldNames(Fields), Fields, calls[n].before).globalSet

\* C21: the global set starts empty, each call starts from the set the call
\* before it left, and after each product of each chunk the set is the one
\* before that product plus its catalog number when it has one (a string that
\* is not blank), whether the product ends with diagnostics or without; so the
\* set only grows, it holds the catalog numbers of all the products validated
\* so far, and a later occurrence of the number of a product that was not
\* valid gets a duplication error.
C21_GlobalSetOfAllProcessed ==
    /\ \A n \in 1..Len(calls) :
          /\ calls[n].before = IF n = 1 THEN {} ELSE calls[n - 1].result.globalSet
          /\ GlobalSetAfter(n, 0) = calls[n].before
          /\ GlobalSetAfter(n, Len(calls[n].chunk)) = calls[n].result.globalSet
          /\ \A k \in 1..Len(calls[n].chunk) :
                GlobalSetAfter(n, k)
                   = GlobalSetAfter(n, k - 1) \cup CatalogsOf(<< calls[n].chunk[k] >>)
    /\ globalSupplierCatalogNumbers
          = UNION { CatalogsOf(calls[n].chunk) : n \in 1..Len(calls) }
    /\ \A pos \in Positions :
          (HasCatalog(RowAt(pos)) /\ EarlierOccurrences(pos) # {}) =>
             \E e \in Range(DiagnosticsAt(pos)) :
                IsDuplicationOf(e, RowAt(pos)["catalog_number"])

\* A product with the catalog number A1 that was not valid was validated in
\* one chunk, and the valid row A1 of the next chunk was flagged as its
\* duplicate: nothing valid carries A1.
C21_Witness ==
    /\ Len(calls) = 2
    /\ HasCatalog(RowAt(<<1, 1>>))
    /\ RowAt(<<1, 1>>)["catalog_number"] = Str(A1)
    /\ \E e \in Range(DiagnosticsAt(<<1, 1>>)) : e.severity = "error" /\ e.type # "duplication"
    /\ RowAt(<<2, 1>>) = GoodRow(A1)
    /\ \E e \in Range(DiagnosticsAt(<<2, 1>>)) : e.code = "GLOBAL_DUPLICATE_CATALOG_NUMBER"
    /\ calls[1].result.finalValidData = <<>>
    /\ calls[2].result.finalValidData = <<>>
    /\ globalSupplierCatalogNumbers = {A1}

\* The chunk-local set as the loop of call n leaves it after the first k
\* products of the chunk.
ChunkSetAfter(n, k) ==
    processProductChunk(SubSeq(calls[n].chunk, 1, k), ExpectedSupplier,
                        AdditionalFieldNames(Fields), Fields, calls[n].before).chunkSet

HasCode(pos, code) == \E e \in Range(DiagnosticsAt(pos)) : e.code = code

\* C22, as the specification states it: the duplicate check adds a catalog
\* number to the chunk-local set only when it is in neither the chunk-local
\* nor the global set, and then to both; an occurrence is reported as a
\* duplicate within the chunk only when an earlier occurrence in the same
\* chunk was the first of the run; and every occurrence, in a later chunk, of
\* a number first seen in an earlier chunk is reported as a duplicate across
\* the file.
C22_ChunkSetOnlyFirstOccurrences ==
    /\ \A n \in 1..Len(calls) : \A k \in 1..Len(calls[n].chunk) :
          LET c == calls[n].chunk[k]["catalog_number"]
          IN  HasCatalog(calls[n].chunk[k]) =>
                 IF c.s \notin ChunkSetAfter(n, k - 1) /\ c.s \notin GlobalSetAfter(n, k - 1)
                 THEN /\ ChunkSetAfter(n, k) = ChunkSetAfter(n, k - 1) \cup {c.s}
                      /\ GlobalSetAfter(n, k) = GlobalSetAfter(n, k - 1) \cup {c.s}
                 ELSE /\ ChunkSetAfter(n, k) = ChunkSetAfter(n, k - 1)
                      /\ GlobalSetAfter(n, k) = GlobalSetAfter(n, k - 1)
    /\ \A pos \in Positions :
          HasCatalog(RowAt(pos)) =>
             /\ HasCode(pos, "CHUNK_DUPLICATE_CATALOG_NUMBER") =>
                   \E q \in EarlierOccurrences(pos) :
                      q[1] = pos[1] /\ EarlierOccurrences(q) = {}
             /\ (\E q \in EarlierOccurrences(pos) : q[1] < pos[1]) =>
                   HasCode(pos, "GLOBAL_DUPLICATE_CATALOG_NUMBER")

\* The products of call n that ended without a diagnostic, marked, in the
\* order of the chunk.
WithoutDiagnostics(n) ==
    Concat([i \in 1..Len(calls[n].chunk) |->
              IF calls[n].result.specific[i] = <<>>
              THEN << Validated(calls[n].result.products[i]) >>
              ELSE <<>>])

\* C23: for every chunk, the valid output is the sequence, in input order, of
\* the products that gathered no diagnostic, each marked validated = true (so
\* a product is in it iff it has no diagnostic, and none of its products has a
\* diagnostic in the error list); and the error list is the sequence of the
\* diagnostics of the products, none left out.
C23_ValidIffNoDiagnostic ==
    \A n \in 1..Len(calls) :
       /\ calls[n].result.finalValidData = WithoutDiagnostics(n)
       /\ \A v \in Range(calls[n].result.finalValidData) : v.validated = TRUE
       /\ calls[n].result.errors = Concat(calls[n].result.specific)
       /\ Len(calls[n].result.specific) = Len(calls[n].chunk)
       /\ Len(calls[n].result.finalValidData)
             = Cardinality({ i \in 1..Len(calls[n].chunk) :
                               calls[n].result.specific[i] = <<>> })

\* A chunk of two products was validated: the first ended with a diagnostic,
\* the second with none, and the second alone is in the valid output.
C23_Witness ==
    \E n \in 1..Len(calls) :
       /\ Len(calls[n].chunk) = 2
       /\ calls[n].result.specific[1] # <<>>
       /\ calls[n].result.specific[2] = <<>>
       /\ calls[n].result.finalValidData = << Validated(calls[n].result.products[2]) >>
       /\ calls[n].result.errors = calls[n].result.specific[1]

\* The allowed values of the constant field species and their canonical names.
SpeciesValues == FindField(Fields, "species").value

CanonicalNames == { SpeciesValues[i].name : i \in 1..Len(SpeciesValues) }

\* The tokens of a cell that no allowed value matches, by its alternate names
\* or by its own name.
FailingTokens(v) ==
    { t \in Range(TokensOf(v)) :
        \A i \in 1..Len(SpeciesValues) : ~ItemMatches(SpeciesValues[i], t) }

IsUnrecognizedValue(e) == e.type = "invalid_value" /\ e.field = "species"

\* C24, as the specification states it: for a product with a catalog number
\* whose species cell is neither blank nor 'N/A', the field ends as an array
\* that holds only canonical names of allowed values, the empty array when
\* every token failed to match; exactly one invalid_value error names the
\* field when a token matched nothing, its details listing every failing
\* token once, and none otherwise.
C24_ConstantFieldBecomesArray ==
    \A pos \in Positions :
       ( /\ HasCatalog(RowAt(pos))
         /\ RowAt(pos)["species"].t = "str"
         /\ trim(RowAt(pos)["species"].s) # <<>>
         /\ toLowerCase(trim(RowAt(pos)["species"].s)) # <<"n","/","a">> )
       => /\ ProductAt(pos)["species"].t = "arr"
          /\ Range(ProductAt(pos)["species"].a) \subseteq CanonicalNames
          /\ FailingTokens(RowAt(pos)["species"]) = Range(TokensOf(RowAt(pos)["species"]))
                => ProductAt(pos)["species"].a = <<>>
          /\ Count(DiagnosticsAt(pos), IsUnrecognizedValue)
                = IF FailingTokens(RowAt(pos)["species"]) = {} THEN 0 ELSE 1
          /\ \A e \in Range(DiagnosticsAt(pos)) :
                IsUnrecognizedValue(e) =>
                   /\ Range(e.details) = FailingTokens(RowAt(pos)["species"])
                   /\ Len(e.details) = Cardinality(FailingTokens(RowAt(pos)["species"]))

\* The allowed values of species that match a token, by an alternate name or
\* by their own name.
MatchingValues(t) == { i \in 1..Len(SpeciesValues) : ItemMatches(SpeciesValues[i], t) }

\* The canonical name a token contributes: that of the matching allowed value
\* defined first.
NameFor(t) == SpeciesValues[MinOf(MatchingValues(t))].name

\* The first token of ts that contributes the name x.
FirstTokenFor(ts, x) ==
    MinOf({ i \in 1..Len(ts) : MatchingValues(ts[i]) # {} /\ NameFor(ts[i]) = x })

\* C25: for a product with a catalog number whose species cell lists tokens,
\* each token contributes at most one canonical name, that of the first
\* allowed value (in definition order) that matches it by an alternate name
\* or by its own name: the array written holds exactly these names, none
\* twice, in the order of the tokens that first gave them, so it is never
\* longer than the list of tokens.
C25_FirstMatchingValueWins ==
    \A pos \in Positions :
       ( /\ HasCatalog(RowAt(pos))
         /\ RowAt(pos)["species"].t = "str"
         /\ toLowerCase(trim(RowAt(pos)["species"].s)) # <<"n","/","a">>
         /\ TokensOf(RowAt(pos)["species"]) # <<>> )
       => LET ts == TokensOf(RowAt(pos)["species"])
              a  == ProductAt(pos)["species"].a
          IN  /\ ProductAt(pos)["species"].t = "arr"
              /\ Range(a) = { NameFor(ts[i]) :
                                i \in { j \in 1..Len(ts) : MatchingValues(ts[j]) # {} } }
              /\ Cardinality(Range(a)) = Len(a)
              /\ Len(a) <= Len(ts)
              /\ \A x \in 1..Len(a), y \in 1..Len(a) :
                    x < y => FirstTokenFor(ts, a[x]) < FirstTokenFor(ts, a[y])

\* A token that both allowed values match (the first by its alternate name,
\* the second by its own name) was validated next to a token that nothing
\* matches: the field holds the name of the first allowed value alone.
C25_Witness ==
    \E pos \in Positions :
       /\ HasCatalog(RowAt(pos))
       /\ RowAt(pos)["species"].t = "str"
       /\ Len(TokensOf(RowAt(pos)["species"])) = 2
       /\ \E i \in 1..2 : MatchingValues(TokensOf(RowAt(pos)["species"])[i]) = {1, 2}
       /\ ProductAt(pos)["species"] = Arr(<< SpeciesValues[1].name >>)

IsMissingCatalogError(e) == e.code = "MISSING_OR_INVALID_CATALOG_NUMBER"

\* C26, as the specification states it: the short-circuit fires only for a
\* catalog number that is missing or blank; a product whose catalog_number
\* cell holds a value that is not blank, of whatever type, is never reported
\* with the missing catalog number error and goes through all the checks, so
\* its diagnostics are those of the duplicate check and of the field checks
\* and it is left as the field checks leave it.
C26_ShortCircuitOnlyWhenBlank ==
    \A pos \in Positions :
       ~BlankCatalog(RowAt(pos)) =>
          /\ Count(DiagnosticsAt(pos), IsMissingCatalogError) = 0
          /\ \E chk \in { FieldChecks(RowAt(pos), ExpectedSupplier,
                                      AdditionalFieldNames(Fields), Fields) } :
                /\ ProductAt(pos) = chk.product
                /\ SelectSeq(DiagnosticsAt(pos), LAMBDA e : e.type # "duplication")
                      = chk.errors

\* A cell that is absent, null or a blank string.
BlankCell(v) ==
    \/ v.t \in {"undef", "null"}
    \/ v.t = "str" /\ \A i \in 1..Len(v.s) : IsSpace(v.s[i])

IsMissingEssential(e, field) ==
    e.type = "missing_field" /\ e.code = "MISSING_ESSENTIAL_FIELD" /\ e.field = field

\* C27: for a product with a catalog number, each essential path other than
\* price.promotion_price.amount gets one missing_field error of the presence
\* check, naming that path, when its cell is absent, null or blank, and none
\* when it is not; a blank promotion amount becomes null and no diagnostic
\* names it, neither from the presence check nor from the price check; and a
\* product whose only blank cell is the promotion amount, the rest being
\* valid and its catalog number new, has no diagnostic and is in the valid
\* output.
C27_EssentialPresence ==
    \A pos \in Positions :
       HasCatalog(RowAt(pos)) =>
          /\ \A i \in 1..Len(EssentialFields) :
                LET field == EssentialFields[i]
                    v     == RowAt(pos)[field]
                IN  IF field = "price.promotion_price.amount"
                    THEN BlankCell(v) =>
                            /\ ProductAt(pos)[field] = Null
                            /\ OnField(DiagnosticsAt(pos), field) = <<>>
                    ELSE /\ Count(DiagnosticsAt(pos), LAMBDA e : IsMissingEssential(e, field))
                               = IF BlankCell(v) THEN 1 ELSE 0
                         /\ \A e \in Range(DiagnosticsAt(pos)) :
                               IsMissingEssential(e, field) => e.severity = "error"
          /\ ( /\ BlankCell(RowAt(pos)["price.promotion_price.amount"])
               /\ [RowAt(pos) EXCEPT !["price.promotion_price.amount"] = Undef]
                     = GoodRow(RowAt(pos)["catalog_number"].s)
               /\ EarlierOccurrences(pos) = {} )
             => /\ DiagnosticsAt(pos) = <<>>
                /\ Validated(ProductAt(pos)) \in Range(calls[pos[1]].result.finalValidData)

\* A product whose promotion amount is the empty string, every other cell
\* valid, was validated alone: the amount is null and the product is valid.
C27_Witness ==
    \E pos \in Positions :
       /\ RowAt(pos) = [GoodRow(A1) EXCEPT !["price.promotion_price.amount"] = Str(<<>>)]
       /\ Len(calls[pos[1]].chunk) = 1
       /\ ProductAt(pos)["price.promotion_price.amount"] = Null
       /\ calls[pos[1]].result.finalValidData = << Validated(ProductAt(pos)) >>
       /\ calls[pos[1]].result.errors = <<>>

\* The rows of data of a sheet that hold a cell.
NonEmptyRows(sheet) == SelectSeq(sheet.data, HasKeys)

\* The sheet has a row that holds a cell.
HasNonEmptyRow(sheet) ==
    (sheet.first.present /\ Len(sheet.first.cells) > 0) \/ NonEmptyRows(sheet) # <<>>

\* The rows that hold a cell and come after the first row that holds one.
RowsAfterFirstNonEmpty(sheet) ==
    IF sheet.first.present /\ Len(sheet.first.cells) > 0
    THEN NonEmptyRows(sheet)
    ELSE IF NonEmptyRows(sheet) = <<>> THEN <<>> ELSE Tail(NonEmptyRows(sheet))

\* C28, as the specification states it: in each sheet the reader leaves
\* AwaitingHeader once, on the first row that holds a cell: a sheet with such
\* a row gets headers and no NO_SHEET_HEADERS warning, the headers are those
\* of its first row when that row holds a cell, rows without cells before it
\* are skipped, and every row that holds a cell after it becomes a product.
C28_HeaderIsFirstNonEmptyRow ==
    \A n \in 1..Len(readCalls) :
       /\ \A i \in 1..Len(readCalls[n].sheets) :
             LET sheet == readCalls[n].sheets[i]
             IN  /\ HasNonEmptyRow(sheet) =>
                       /\ readCalls[n].result.metadata[i].headers # <<>>
                       /\ HeaderWarnings(readCalls[n].result.errors, sheet.sheetName) = {}
                 /\ (sheet.first.present /\ Len(sheet.first.cells) > 0) =>
                       readCalls[n].result.metadata[i].headers = sheet.first.cells
       /\ Len(readCalls[n].result.allProducts)
             = Len(Concat([i \in 1..Len(readCalls[n].sheets) |->
                             RowsAfterFirstNonEmpty(readCalls[n].sheets[i])]))

\* The additional fields of the schema.
AdditionalNames == Range(AdditionalFieldNames(Fields))

\* C29, as the specification has it from the code: for a product with a
\* catalog number, an additional field of the schema whose key is not on the
\* product gets no diagnostic, and a product that is valid but for the absence
\* of an additional field is valid; a missing_field error names an additional
\* field only when its key is on the product with a blank value.
C29_OnlyPresentKeysVisited ==
    \A pos \in Positions :
       HasCatalog(RowAt(pos)) =>
          \A f \in AdditionalNames :
             /\ RowAt(pos)[f] = Undef =>
                   /\ OnField(DiagnosticsAt(pos), f) = <<>>
                   /\ ProductAt(pos)[f] = Undef
                   /\ ( /\ [RowAt(pos) EXCEPT ![f] = GoodRow(A1)[f]]
                              = GoodRow(RowAt(pos)["catalog_number"].s)
                        /\ EarlierOccurrences(pos) = {} )
                      => /\ DiagnosticsAt(pos) = <<>>
                         /\ Validated(ProductAt(pos))
                               \in Range(calls[pos[1]].result.finalValidData)
             /\ (\E e \in Range(OnField(DiagnosticsAt(pos), f)) : e.type = "missing_field")
                   => RowAt(pos)[f] # Undef /\ BlankCell(RowAt(pos)[f])

\* The products of an array at the sampled positions, in order: the first,
\* the one at index floor(n/2) when n > 2, the last when n > 1.
ProductsAtSampled(products) ==
    LET n == Len(products)
    IN  << products[1] >>
        \o (IF n > 2 THEN << products[(n \div 2) + 1] >> ELSE <<>>)
        \o (IF n > 1 THEN << products[n] >> ELSE <<>>)

\* C30: of an array of n >= 1 products the fingerprint samples the products
\* at indices 0, floor(n/2) (when n > 2) and n - 1 (when n > 1), one to three
\* of them; two arrays of the same length, fingerprinted with the same
\* metadata, that agree at these indices have the same fingerprint, whatever
\* their products at the other indices.
C30_UnsampledRowsIgnored ==
    \A x \in 1..Len(hashCalls), y \in 1..Len(hashCalls) :
       LET a == hashCalls[x]
           b == hashCalls[y]
       IN  /\ SampledProducts(a.products) = ProductsAtSampled(a.products)
           /\ Len(SampledProducts(a.products)) \in 1..3
           /\ ( /\ a.metadata = b.metadata
                /\ Len(a.products) = Len(b.products)
                /\ \A i \in SampledPositions(Len(a.products)) :
                      a.products[i] = b.products[i] )
              => a.hash = b.hash

\* Two arrays of four products that differ in their second product only were
\* fingerprinted with the same metadata, and the fingerprints are equal.
C30_Witness ==
    /\ Len(hashCalls) = 2
    /\ Len(hashCalls[1].products) = 4
    /\ Len(hashCalls[2].products) = 4
    /\ hashCalls[1].metadata = hashCalls[2].metadata
    /\ hashCalls[1].products[2] # hashCalls[2].products[2]
    /\ \A i \in {1, 3, 4} : hashCalls[1].products[i] = hashCalls[2].products[i]
    /\ hashCalls[1].hash = hashCalls[2].hash
====
